---- MODULE Spec2Model ----
(***************************************************************************)
(* Request authentication and session subsystem of jmap-server.            *)
(*                                                                         *)
(* One Lambda process serves one request at a time (Spec); SpecPair lets   *)
(* two invocations of withAuth overlap at their awaits.  The entry points  *)
(* modelled are the withAuth wrapper around a protected handler and the    *)
(* logout, token and login handlers.  Strings the code inspects character  *)
(* by character (tokens, cookie values) are sequences of one-character     *)
(* strings; the identity provider, the key provider and the protected      *)
(* handler are environment oracles whose answers are drawn                 *)
(* nondeterministically.                                                   *)
(***************************************************************************)
EXTENDS Integers, Sequences, FiniteSets, TLC

\* ------------------------------------------------------------------ bounds

\* Most cookies one request carries, event.cookies and Cookie header together.
MaxCookies == 2

\* Most logouts counted in a row (the counter saturates here).
MaxLogoutRun == 2

\* ------------------------------------------------------- program constants

DEFAULT_COOKIE_MAX_AGE == 3600

REFRESH_TOKEN_MAX_AGE == 2592000

\* ------------------------------------------------------------- characters

\* A token the key provider can verify: three url-safe segments.
JwtA == <<"h", ".", "p", ".", "a">>

JwtB == <<"h", ".", "p", ".", "b">>

\* An opaque one-segment token.
Opaque == <<"r">>

\* A token with a character encodeURIComponent escapes.
Slashed == <<"r", "/">>

\* Slashed as accessTokenCookie/refreshTokenCookie put it on the wire.
EncSlashed == <<"r", "%", "2", "F">>

\* A cookie value with a truncated percent escape.
Malformed == <<"%">>

Empty == <<>>

\* encodeURIComponent leaves A-Z a-z 0-9 - _ . ! ~ * ' ( ) alone.
Unreserved == {"h", "p", "a", "b", "r", "2", "5", "F", ".", "*", "_"}

\* The escape encodeURIComponent writes for the other characters of the model.
EscapeOf(c) ==
  CASE c = "/" -> <<"%", "2", "F">>
    [] c = "%" -> <<"%", "2", "5">>
    [] c = "+" -> <<"%", "2", "B">>
    [] c = "\"" -> <<"%", "2", "2">>
    [] c = "[" -> <<"%", "5", "B">>

RECURSIVE EncodeURIComponent(_)
EncodeURIComponent(s) ==
  IF s = <<>> THEN <<>>
  ELSE (IF Head(s) \in Unreserved THEN <<Head(s)>> ELSE EscapeOf(Head(s)))
       \o EncodeURIComponent(Tail(s))

\* The character a two-digit escape stands for; "" when the byte is not a
\* complete UTF-8 character by itself (decodeURIComponent raises URIError).
UnescapeOf(x, y) ==
  CASE x = "2" /\ y = "F" -> "/"
    [] x = "2" /\ y = "5" -> "%"
    [] x = "2" /\ y = "2" -> "\""
    [] x = "2" /\ y = "a" -> "*"
    [] x = "2" /\ y = "b" -> "+"
    [] x = "5" /\ y = "F" -> "_"
    [] x = "5" /\ y = "b" -> "["
    [] OTHER -> ""

\* decodeURIComponent: [ok |-> TRUE, val |-> decoded] or [ok |-> FALSE] (URIError).
RECURSIVE DecodeURIComponent(_)
DecodeURIComponent(s) ==
  IF s = <<>> THEN [ok |-> TRUE, val |-> <<>>]
  ELSE IF Head(s) # "%"
    THEN LET r == DecodeURIComponent(Tail(s))
         IN  IF r.ok THEN [ok |-> TRUE, val |-> <<Head(s)>> \o r.val] ELSE r
    ELSE IF Len(s) < 3 \/ UnescapeOf(s[2], s[3]) = ""
      THEN [ok |-> FALSE, val |-> <<>>]
      ELSE LET r == DecodeURIComponent(SubSeq(s, 4, Len(s)))
           IN  IF r.ok THEN [ok |-> TRUE, val |-> <<UnescapeOf(s[2], s[3])>> \o r.val]
               ELSE r

\* token.split('.').length
RECURSIVE Segments(_)
Segments(s) ==
  IF s = <<>> THEN 1
  ELSE (IF Head(s) = "." THEN 1 ELSE 0) + Segments(Tail(s))

\* ---------------------------------------------------------------- requests

\* Values a client sends in an access_token cookie.
AccessRaw == {JwtA, JwtB, Empty}

\* Values a client sends in a refresh_token cookie.
RefreshRaw == {Opaque, EncSlashed, Malformed, Empty}

AccessEntries == [name : {"access_token"}, value : AccessRaw]

RefreshEntries == [name : {"refresh_token"}, value : RefreshRaw]

\* Cookie lists, each name at most once: event.cookies ("name=value" strings,
\* split at the first "=") and the entries of a Cookie header (split at ";").
CookieSeqs ==
  {<<>>} \cup {<<e>> : e \in AccessEntries \cup RefreshEntries}
         \cup {<<a, r>> : a \in AccessEntries, r \in RefreshEntries}

\* Names under which a client may send the Authorization header.
AuthzKeys == {"authorization", "Authorization", "AUTHORIZATION", "aUTHORIZATION"}

\* No Authorization header (undefined).
NoAuthz == [scheme |-> "none", token |-> <<>>, b64 |-> ""]

\* "Bearer <token>", "Basic <base64>", or a value of another scheme.
AuthzValues ==
  {[scheme |-> "Bearer", token |-> t, b64 |-> ""] : t \in {JwtA, Opaque}}
  \cup {[scheme |-> "Basic", token |-> <<>>, b64 |-> b] : b \in {"dTpw", "dQ=="}}
  \cup {[scheme |-> "Other", token |-> <<>>, b64 |-> ""]}

\* The requests a client can send: event.cookies, the Cookie header and one
\* Authorization header under some spelling of its name.
Requests ==
  {r \in [cookies : CookieSeqs, cookieHeader : CookieSeqs,
          authzKey : AuthzKeys \cup {""}, authz : AuthzValues \cup {NoAuthz}] :
     /\ Len(r.cookies) + Len(r.cookieHeader) <= MaxCookies
     /\ (r.authzKey = "") = (r.authz = NoAuthz)}

NoRequest ==
  [cookies |-> <<>>, cookieHeader |-> <<>>, authzKey |-> "", authz |-> NoAuthz]

\* The keys of event.headers.
HeaderKeys(r) ==
  (IF r.authzKey # "" THEN {r.authzKey} ELSE {})
  \cup (IF r.cookieHeader # <<>> THEN {"cookie"} ELSE {})

\* Buffer.from(b64, 'base64').toString('utf8') on the payloads of the model.
Base64Decode(b) ==
  CASE b = "dTpw" -> <<"u", ":", "p">>
    [] b = "dQ==" -> <<"u">>

\* ----------------------------------------------------------- lib/auth/headers

ToLowerCase(name) ==
  CASE name = "authorization" -> "authorization"
    [] name = "cookie" -> "cookie"
    [] name = "origin" -> "origin"

ToUpperCase(name) ==
  CASE name = "authorization" -> "AUTHORIZATION"
    [] name = "cookie" -> "COOKIE"

TitleCase(name) ==
  CASE name = "authorization" -> "Authorization"
    [] name = "cookie" -> "Cookie"

\* The key under which getHeader finds the header, "" when it finds none:
\* h[name] ?? h[name.toLowerCase()] ?? h[name.toUpperCase()] ?? h[titleCase].
GetHeaderKey(r, name) ==
  IF name \in HeaderKeys(r) THEN name
  ELSE IF ToLowerCase(name) \in HeaderKeys(r) THEN ToLowerCase(name)
  ELSE IF ToUpperCase(name) \in HeaderKeys(r) THEN ToUpperCase(name)
  ELSE IF TitleCase(name) \in HeaderKeys(r) THEN TitleCase(name)
  ELSE ""

\* getHeader(event, 'authorization')
GetAuthzHeader(r) ==
  IF GetHeaderKey(r, "authorization") = "" THEN NoAuthz ELSE r.authz

\* getHeader(event, 'cookie'): the entries of the header, <<>> when absent.
GetCookieHeader(r) ==
  IF GetHeaderKey(r, "cookie") = "" THEN <<>> ELSE r.cookieHeader

\* parseCookies: every value is percent-decoded (a bad escape raises), and a
\* later entry of the same name overwrites an earlier one.
ParseCookies(h) ==
  LET bad == \E i \in 1..Len(h) : ~DecodeURIComponent(h[i].value).ok
      names == {h[i].name : i \in 1..Len(h)}
      last(n) == CHOOSE i \in 1..Len(h) :
                   /\ h[i].name = n
                   /\ \A j \in 1..Len(h) : h[j].name = n => j <= i
  IN  IF bad THEN [ok |-> FALSE, map |-> <<>>]
      ELSE [ok |-> TRUE,
            map |-> [n \in names |-> DecodeURIComponent(h[last(n)].value).val]]

\* cookies[name], Empty when undefined.
CookieGet(map, n) == IF n \in DOMAIN map THEN map[n] ELSE Empty

\* cookiesArray.some(c => c.startsWith(name + '='))
ArrayHas(arr, n) == \E i \in 1..Len(arr) : arr[i].name = n

\* The loop "for (cookie of cookiesArray) if startsWith(name=) { substring; break }":
\* the value of the first entry of that name, undecoded; Empty when none.
ArrayFirst(arr, n) ==
  IF ArrayHas(arr, n)
  THEN arr[CHOOSE i \in 1..Len(arr) :
             /\ arr[i].name = n
             /\ \A j \in 1..Len(arr) : arr[j].name = n => i <= j].value
  ELSE Empty

\* A Set-Cookie instruction "name=value; HttpOnly; Secure; SameSite=Lax; Path=/; Max-Age=n".
SetCookie(n, v, age) ==
  [name |-> n, value |-> v,
   attrs |-> <<"HttpOnly", "Secure", "SameSite=Lax", "Path=/">>, maxAge |-> age]

AccessTokenCookie(token, maxAgeSeconds) ==
  SetCookie("access_token", EncodeURIComponent(token), maxAgeSeconds)

RefreshTokenCookie(token, maxAgeSeconds) ==
  SetCookie("refresh_token", EncodeURIComponent(token), maxAgeSeconds)

\* The sentinel value "deleted".
Deleted == <<"d", "e", "l", "e", "t", "e", "d">>

ClearAccessTokenCookie == SetCookie("access_token", Deleted, 0)

ClearRefreshTokenCookie == SetCookie("refresh_token", Deleted, 0)

\* Variant: on a conflict the first object's value is kept.
MergeFirstWins(a, b) ==
  [k \in DOMAIN a \cup DOMAIN b |-> IF k \in DOMAIN a THEN a[k] ELSE b[k]]

\* { ...a, ...b }: b's entries win.
Merge(a, b) ==
  [k \in DOMAIN a \cup DOMAIN b |-> IF k \in DOMAIN b THEN b[k] ELSE a[k]]

\* An object without entries.
NoHeaders == [k \in {} |-> ""]

\* jsonResponseHeaders(event); the requests of the model carry no Origin header,
\* so getCorsHeaders adds nothing.
JsonResponseHeaders(r) == [k \in {"Content-Type"} |-> "application/json"]

\* -------------------------------------------------------------- collaborators

\* The tokens of the model a key provider's signature check can accept: compact
\* JWS, three non-empty segments of url-safe characters (RFC 7515).
VerifiableTokens ==
  {t \in {JwtA, JwtB, Opaque, Slashed, EncSlashed, Malformed} :
     /\ Segments(t) = 3
     /\ \A i \in 1..Len(t) : t[i] \in Unreserved}

\* Every token value a request carries, as sent and percent-decoded.
RequestTokens(r) ==
  LET entries == {r.cookies[i] : i \in 1..Len(r.cookies)}
                 \cup {r.cookieHeader[i] : i \in 1..Len(r.cookieHeader)}
  IN  {e.value : e \in entries}
      \cup {DecodeURIComponent(e.value).val : e \in entries}
      \cup {r.authz.token}

\* What a token's payload and the key provider say about it: the unverified
\* payload (not JSON, without iss, with iss), jwtVerify (sig "ok" when it
\* resolves, else why it throws: expired, bad signature, wrong issuer, key set
\* not fetched), and the claims.
JwtKind(payload, sig, use, client, aud) ==
  [payload |-> payload, sig |-> sig, token_use |-> use, client_id |-> client,
   aud |-> aud]

\* Tokens signed for this client: access tokens bound to it by client_id, other
\* tokens whose audience (scalar or array) names it.
GoodKinds ==
  {JwtKind("iss", "ok", "access", "this", "none"),
   JwtKind("iss", "ok", "id", "none", "this"),
   JwtKind("iss", "ok", "id", "none", "array_with_this"),
   JwtKind("iss", "ok", "none", "none", "this")}

BadKinds ==
  {JwtKind("garbage", "throw", "none", "none", "none"),
   JwtKind("noiss", "throw", "none", "none", "none"),
   JwtKind("iss", "expired", "access", "this", "none"),
   JwtKind("iss", "bad_signature", "access", "this", "none"),
   JwtKind("iss", "jwks_unreachable", "access", "this", "none"),
   JwtKind("iss", "wrong_issuer", "access", "this", "none"),
   JwtKind("iss", "ok", "access", "other", "none"),
   JwtKind("iss", "ok", "access", "other", "this"),
   JwtKind("iss", "ok", "id", "none", "other"),
   JwtKind("iss", "ok", "id", "none", "array_without_this"),
   JwtKind("iss", "ok", "id", "none", "none"),
   JwtKind("iss", "ok", "none", "none", "none")}

\* The identity provider's answers to InitiateAuth: the call throws (rejected,
\* timed out, unreachable), or resolves with AuthenticationResult's AccessToken
\* and RefreshToken, either of which may be missing (Empty).
IssuerAccessTokens == {JwtA, Slashed}

IssuerRefreshTokens == {Slashed}

IssuerThrows == [kind |-> "throw", AccessToken |-> Empty, RefreshToken |-> Empty]

IssuerOutcomes ==
  {IssuerThrows}
  \cup [kind : {"response"}, AccessToken : IssuerAccessTokens \cup {Empty},
        RefreshToken : IssuerRefreshTokens \cup {Empty}]

\* No call was made.
NoOutcome == [kind |-> "none", AccessToken |-> Empty, RefreshToken |-> Empty]

\* What the protected handlers of the repository return.
HandlerResponse(status, headers, body) ==
  [kind |-> "returns", statusCode |-> status, headers |-> headers,
   cookies |-> <<>>, body |-> body]

\* A handler that throws: body holds the message of the error thrown.
HandlerThrows ==
  [kind |-> "throws", statusCode |-> 0, headers |-> NoHeaders, cookies |-> <<>>,
   body |-> "Unexpected error"]

NotInvoked ==
  [kind |-> "none", statusCode |-> 0, headers |-> NoHeaders, cookies |-> <<>>,
   body |-> ""]

HandlerOutcomes ==
  {HandlerThrows,
   HandlerResponse(200, NoHeaders, "methodResponses"),
   HandlerResponse(200,
     Merge([k \in {"Content-Type"} |-> "application/json"],
           [k \in {"Cache-Control"} |-> "no-cache, no-store, must-revalidate"]),
     "session"),
   HandlerResponse(500, [k \in {"Content-Type"} |-> "application/problem+json"],
     "problem")}

\* ------------------------------------------------------------ lib/auth/types

AuthOk(token, refreshToken) ==
  [ok |-> TRUE, statusCode |-> 0, message |-> "", bearerToken |-> token,
   refreshToken |-> refreshToken]

AuthFail(status, message) ==
  [ok |-> FALSE, statusCode |-> status, message |-> message,
   bearerToken |-> Empty, refreshToken |-> Empty]

NoResult == AuthFail(0, "")

\* ----------------------------------------------------- lib/auth/verification

\* Variant: the Authorization header is read before the cookies.
BearerCandidateHeaderFirst(r) ==
  IF GetAuthzHeader(r).scheme = "Bearer" THEN GetAuthzHeader(r).token
  ELSE IF ArrayFirst(r.cookies, "access_token") # Empty
  THEN ArrayFirst(r.cookies, "access_token")
  ELSE IF GetCookieHeader(r) # <<>>
  THEN CookieGet(ParseCookies(GetCookieHeader(r)).map, "access_token")
  ELSE Empty

\* Variant: the Authorization header is the only source of a bearer token.
BearerCandidateHeaderOnly(r) ==
  IF GetAuthzHeader(r).scheme = "Bearer" THEN GetAuthzHeader(r).token ELSE Empty

\* The token verifyBearerFromEvent picks: event.cookies first (undecoded), then
\* the Cookie header (decoded), then "Authorization: Bearer".
BearerCandidate(r) ==
  LET fromArray == ArrayFirst(r.cookies, "access_token")
      fromCookieHeader ==
        IF GetCookieHeader(r) # <<>>
        THEN CookieGet(ParseCookies(GetCookieHeader(r)).map, "access_token")
        ELSE Empty
      authz == GetAuthzHeader(r)
  IN  IF fromArray # Empty THEN fromArray
      ELSE IF fromCookieHeader # Empty THEN fromCookieHeader
      ELSE IF authz.scheme = "Bearer" THEN authz.token
      ELSE Empty

\* The audience claims a token may carry: none, a string (this client's id,
\* another, the empty string), an array (with or without this client's id, empty).
AudClaims ==
  {"none", "this", "other", "empty_string", "array_with_this", "array_without_this",
   "empty_array"}

\* if (audienceClaim): a missing claim and the empty string are falsy.
AudTruthy(aud) == aud \notin {"none", "empty_string"}

\* audOk: the string is, or the array includes, userPoolClientId.
AudOk(aud) == aud \in {"this", "array_with_this"}

\* Variant: an access token whose client_id is another client's is accepted
\* when its audience names this client.
ClaimsAcceptedByAudience(k) ==
  \/ k.token_use = "access" /\ k.client_id = "this"
  \/ (k.token_use = "id" \/ AudTruthy(k.aud)) /\ AudOk(k.aud)

\* The checks after jwtVerify resolved.
ClaimsAccepted(k) ==
  IF k.token_use = "access" THEN k.client_id = "this"
  ELSE IF k.token_use = "id" \/ AudTruthy(k.aud)
    THEN AudOk(k.aud)
    ELSE FALSE

\* Variant: an expired token is reported as such.
VerifyBearerExpiredReported(token, k) ==
  IF token = Empty THEN AuthFail(401, "Missing Bearer token")
  ELSE IF Segments(token) < 2 THEN AuthFail(400, "Invalid JWT")
  ELSE IF k.payload = "garbage" THEN AuthFail(401, "Invalid token")
  ELSE IF k.payload = "noiss" THEN AuthFail(400, "Missing iss")
  ELSE IF k.sig = "expired" THEN AuthFail(401, "Token expired")
  ELSE IF k.sig # "ok" THEN AuthFail(401, "Invalid token")
  ELSE IF ~ClaimsAccepted(k) THEN AuthFail(401, "Invalid token")
  ELSE AuthOk(token, Empty)

\* Variant: a throw of jwtVerify is not caught and surfaces as a 500.
VerifyBearerUncaught(token, k) ==
  IF token = Empty THEN AuthFail(401, "Missing Bearer token")
  ELSE IF Segments(token) < 2 THEN AuthFail(400, "Invalid JWT")
  ELSE IF k.payload = "garbage" THEN AuthFail(401, "Invalid token")
  ELSE IF k.payload = "noiss" THEN AuthFail(400, "Missing iss")
  ELSE IF k.sig # "ok" THEN AuthFail(500, "Internal server error")
  ELSE IF ~ClaimsAccepted(k) THEN AuthFail(401, "Invalid token")
  ELSE AuthOk(token, Empty)

\* verifyBearerFromEvent for the picked token, k being what the token is.
VerifyBearer(token, k) ==
  IF token = Empty THEN AuthFail(401, "Missing Bearer token")
  ELSE IF Segments(token) < 2 THEN AuthFail(400, "Invalid JWT")
  ELSE IF k.payload = "garbage" THEN AuthFail(401, "Invalid token")
  ELSE IF k.payload = "noiss" THEN AuthFail(400, "Missing iss")
  ELSE IF k.sig # "ok" THEN AuthFail(401, "Invalid token")
  ELSE IF ~ClaimsAccepted(k) THEN AuthFail(401, "Invalid token")
  ELSE AuthOk(token, Empty)

\* Whether verifyBearerFromEvent gets as far as the key provider (jwtVerify).
ReachesKeyProvider(token, k) ==
  token # Empty /\ Segments(token) >= 2 /\ k.payload = "iss"

\* -------------------------------------------------------- lib/auth/cognito

\* Variant: the refresh token sent is not kept when none comes back.
RefreshAccessTokenNoFallback(refreshToken, o) ==
  IF o.kind = "throw" THEN AuthFail(401, "Invalid or expired refresh token")
  ELSE IF o.AccessToken = Empty THEN AuthFail(502, "No access token from Cognito")
  ELSE AuthOk(o.AccessToken, o.RefreshToken)

\* Variant: a rotated refresh token is dropped for the one sent.
RefreshAccessTokenKeepsOriginal(refreshToken, o) ==
  IF o.kind = "throw" THEN AuthFail(401, "Invalid or expired refresh token")
  ELSE IF o.AccessToken = Empty THEN AuthFail(502, "No access token from Cognito")
  ELSE AuthOk(o.AccessToken, refreshToken)

\* refreshAccessToken, o being the identity provider's answer.
RefreshAccessToken(refreshToken, o) ==
  IF o.kind = "throw" THEN AuthFail(401, "Invalid or expired refresh token")
  ELSE IF o.AccessToken = Empty THEN AuthFail(502, "No access token from Cognito")
  ELSE AuthOk(o.AccessToken,
              IF o.RefreshToken # Empty THEN o.RefreshToken ELSE refreshToken)

\* decoded.indexOf(':') >= 0
HasColon(s) == \E i \in 1..Len(s) : s[i] = ":"

\* Variant: a payload without colon is sent on as a user name.
BasicCallsIssuerAnyPayload(authzHeader) == authzHeader.scheme = "Basic"

\* Whether verifyBasicWithCognito calls the identity provider for this header.
BasicCallsIssuer(authzHeader) ==
  authzHeader.scheme = "Basic" /\ HasColon(Base64Decode(authzHeader.b64))

\* Variant: a response without access token is reported as a rejection.
VerifyBasicWithCognitoNoUpstreamError(authzHeader, o) ==
  IF authzHeader.scheme # "Basic" THEN AuthFail(401, "Missing Basic auth")
  ELSE IF ~HasColon(Base64Decode(authzHeader.b64))
    THEN AuthFail(400, "Invalid Basic format")
  ELSE IF o.kind = "throw" \/ o.AccessToken = Empty
    THEN AuthFail(401, "Invalid credentials")
  ELSE AuthOk(o.AccessToken, o.RefreshToken)

\* verifyBasicWithCognito, o being the identity provider's answer.
VerifyBasicWithCognito(authzHeader, o) ==
  IF authzHeader.scheme # "Basic" THEN AuthFail(401, "Missing Basic auth")
  ELSE IF ~HasColon(Base64Decode(authzHeader.b64))
    THEN AuthFail(400, "Invalid Basic format")
  ELSE IF o.kind = "throw" THEN AuthFail(401, "Invalid credentials")
  ELSE IF o.AccessToken = Empty THEN AuthFail(502, "No access token from Cognito")
  ELSE AuthOk(o.AccessToken, o.RefreshToken)

\* ------------------------------------------------------ lib/auth/withAuth

ErrorBody(message) == [error |-> message, payload |-> ""]

PayloadBody(payload) == [error |-> "", payload |-> payload]

NoResponse ==
  [statusCode |-> 0, headers |-> NoHeaders, cookies |-> <<>>, body |-> PayloadBody("")]

\* Variant: a denial clears the session cookies.
ErrorResponseClearingCookies(r, status, message) ==
  [statusCode |-> status, headers |-> JsonResponseHeaders(r),
   cookies |-> <<ClearAccessTokenCookie, ClearRefreshTokenCookie>>,
   body |-> ErrorBody(message)]

\* { statusCode, headers: jsonResponseHeaders(event), body: { error: message } }
ErrorResponse(r, status, message) ==
  [statusCode |-> status, headers |-> JsonResponseHeaders(r), cookies |-> <<>>,
   body |-> ErrorBody(message)]

MisconfiguredMessage == "Server misconfiguration (USER_POOL_CLIENT_ID missing)"

InternalErrorMessage == "Internal server error"

NoAuthMessage ==
  "No authentication method provided. Call /auth/login with username and password to get an access token, or use Basic auth with the Authorization header."

\* The catch block of withAuth.
InternalErrorResponse(r) == ErrorResponse(r, 500, InternalErrorMessage)

TokenSourceWasCookie(r, cookies) ==
  ArrayHas(r.cookies, "access_token") \/ CookieGet(cookies, "access_token") # Empty

HasRefreshToken(r, cookies) ==
  ArrayHas(r.cookies, "refresh_token") \/ CookieGet(cookies, "refresh_token") # Empty

\* Variant: a Bearer token of the Authorization header is exchanged as the
\* refresh token.
RefreshTokenToTryHeader(r, cookies, a) ==
  IF ~a.ok /\ (TokenSourceWasCookie(r, cookies) \/ HasRefreshToken(r, cookies))
  THEN IF r.authz.scheme = "Bearer"
       THEN r.authz.token
       ELSE CookieGet(cookies, "refresh_token")
  ELSE Empty

\* Variant: only a failing access_token cookie leads to a refresh.
RefreshTokenToTryAfterCookieOnly(r, cookies, a) ==
  IF ~a.ok /\ TokenSourceWasCookie(r, cookies)
  THEN IF ArrayFirst(r.cookies, "refresh_token") # Empty
       THEN ArrayFirst(r.cookies, "refresh_token")
       ELSE CookieGet(cookies, "refresh_token")
  ELSE Empty

\* The refresh token step 2 exchanges, Empty when it exchanges none: the first
\* refresh_token entry of event.cookies (undecoded), else the parsed cookie.
RefreshTokenToTry(r, cookies, a) ==
  IF ~a.ok /\ (TokenSourceWasCookie(r, cookies) \/ HasRefreshToken(r, cookies))
  THEN IF ArrayFirst(r.cookies, "refresh_token") # Empty
       THEN ArrayFirst(r.cookies, "refresh_token")
       ELSE CookieGet(cookies, "refresh_token")
  ELSE Empty

\* Where withAuth goes after verifyBearerFromEvent returned a, rt being the
\* refresh token of step 2.
StepAfterBearer(a, rt) ==
  IF a.ok THEN "handler" ELSE IF rt # Empty THEN "refresh" ELSE "basic"

\* Variant: a failed refresh is tried again.
StepAfterRefreshRetry(refreshed) ==
  IF refreshed.ok /\ refreshed.bearerToken # Empty THEN "handler" ELSE "refresh"

\* Variant: the Basic step runs whatever the refresh gave.
StepAfterRefreshAlwaysBasic(refreshed) == "basic"

\* Variant: the handler is invoked whatever the refresh gave.
StepAfterRefreshAlwaysHandler(refreshed) == "handler"

\* Where withAuth goes after refreshAccessToken returned.
StepAfterRefresh(refreshed) ==
  IF refreshed.ok /\ refreshed.bearerToken # Empty THEN "handler" ELSE "basic"

\* event.headers?.authorization ?? event.headers?.Authorization
DirectAuthzHeader(r) ==
  IF r.authzKey \in {"authorization", "Authorization"} THEN r.authz ELSE NoAuthz

\* authzHeader?.startsWith('Bearer ')
StartsWithBearer(h) == h.scheme = "Bearer"

\* Variant: the test of the Authorization header is inverted.
NoAuthProvidedHeaderPresent(a, basic, h) ==
  /\ ~a.ok
  /\ a.message = "Missing Bearer token"
  /\ ~basic.ok
  /\ basic.message = "Missing Basic auth"
  /\ h # NoAuthz

NoAuthProvided(a, basic, h) ==
  /\ ~a.ok
  /\ a.message = "Missing Bearer token"
  /\ ~basic.ok
  /\ basic.message = "Missing Basic auth"
  /\ h = NoAuthz

\* The answer when the Basic step failed and auth is required.
BasicFailureResponse(r, a, basic, h) ==
  IF NoAuthProvided(a, basic, h) THEN ErrorResponse(r, 401, NoAuthMessage)
  ELSE ErrorResponse(r, basic.statusCode, basic.message)

\* Variant: the access token cookie lives for ten minutes.
IssuedCookiesTenMinutes(a) ==
  <<AccessTokenCookie(a.bearerToken, 600)>>
  \o (IF a.refreshToken # Empty
      THEN <<RefreshTokenCookie(a.refreshToken, REFRESH_TOKEN_MAX_AGE)>>
      ELSE <<>>)

\* cookieHeaders after a refresh or a Basic exchange.
IssuedCookies(a) ==
  <<AccessTokenCookie(a.bearerToken, DEFAULT_COOKIE_MAX_AGE)>>
  \o (IF a.refreshToken # Empty
      THEN <<RefreshTokenCookie(a.refreshToken, REFRESH_TOKEN_MAX_AGE)>>
      ELSE <<>>)

\* { ...handlerResponse, headers: { ...jsonResponseHeaders(event),
\*   ...handlerResponse.headers } } and, after an exchange, cookies: cookieHeaders.
\* Variant: a response that sets cookies answers 200.
MergedResponseOkWithCookies(r, h, cookies) ==
  [statusCode |-> IF cookies # <<>> THEN 200 ELSE h.statusCode,
   headers |-> Merge(JsonResponseHeaders(r), h.headers),
   cookies |-> cookies, body |-> PayloadBody(h.body)]

\* Variant: the cookies of the exchange are added to the handler's.
MergedResponseAddingCookies(r, h, cookies) ==
  [statusCode |-> h.statusCode, headers |-> Merge(JsonResponseHeaders(r), h.headers),
   cookies |-> IF cookies = h.cookies THEN cookies ELSE h.cookies \o cookies,
   body |-> PayloadBody(h.body)]

MergedResponse(r, h, cookies) ==
  [statusCode |-> h.statusCode, headers |-> Merge(JsonResponseHeaders(r), h.headers),
   cookies |-> cookies, body |-> PayloadBody(h.body)]

\* Variant: the catch block answers with the message of the error caught.
AfterHandlerLeaking(r, via, a, h) ==
  IF h.kind = "throws" THEN ErrorResponse(r, 500, h.body)
  ELSE IF via = "none" THEN MergedResponse(r, h, h.cookies)
  ELSE MergedResponse(r, h, IssuedCookies(a))

\* What withAuth returns once the handler was awaited: a throwing handler lands
\* in the catch block, whichever step authenticated the request.
AfterHandler(r, via, a, h) ==
  IF h.kind = "throws" THEN InternalErrorResponse(r)
  ELSE IF via = "none" THEN MergedResponse(r, h, h.cookies)
  ELSE MergedResponse(r, h, IssuedCookies(a))

\* ------------------------------------------------------ handlers/auth/logout

\* s.trim()
RECURSIVE TrimStart(_)
TrimStart(s) ==
  IF s # <<>> /\ Head(s) = " " THEN TrimStart(Tail(s)) ELSE s

RECURSIVE TrimEnd(_)
TrimEnd(s) ==
  IF s # <<>> /\ s[Len(s)] = " " THEN TrimEnd(SubSeq(s, 1, Len(s) - 1)) ELSE s

Trim(s) == TrimEnd(TrimStart(s))

\* ------------------------------------------------- lib/auth/headers: CORS

\* Origins a browser may send.
Origins == {<<"a">>, <<"b">>, <<"e">>}

\* The names under which the Origin header may arrive, "" when it is not sent.
OriginKeys == {"", "origin", "Origin", "ORIGIN"}

\* The headers of an event as far as getCorsHeaders reads them.
OriginHeaders ==
  {h \in [originKey : OriginKeys, origin : Origins \cup {Empty}] :
     (h.originKey = "") = (h.origin = Empty)}

\* process.env.ALLOWED_ORIGINS split at its commas; <<>> when unset or empty.
AllowedOriginsSettings ==
  {<<>>,
   << <<"a">> >>,
   << <<"a">>, <<" ", "b">> >>,
   << <<" ", "a", " ">>, <<>> >>,
   << <<" ">>, <<>> >>}

\* origins.split(',').map(o => o.trim()).filter(o => o.length > 0)
GetAllowedOrigins(setting) ==
  {Trim(setting[i]) : i \in 1..Len(setting)} \ {Empty}

\* getHeader(event, 'origin'): h[name.toLowerCase()]
GetOriginHeader(h) ==
  IF h.originKey = ToLowerCase("origin") THEN h.origin ELSE Empty

\* The headers getCorsHeaders returns for an origin.
CorsHeadersFor(origin) ==
  [k \in {"Access-Control-Allow-Origin", "Vary", "Access-Control-Allow-Credentials",
          "Access-Control-Allow-Headers", "Access-Control-Allow-Methods"} |->
     CASE k = "Access-Control-Allow-Origin" -> origin
       [] k = "Vary" -> <<"Origin">>
       [] k = "Access-Control-Allow-Credentials" -> <<"true">>
       [] k = "Access-Control-Allow-Headers" -> <<"authorization, content-type">>
       [] k = "Access-Control-Allow-Methods" -> <<"GET,POST,OPTIONS">>]

\* An object without entries, its values strings of characters.
NoCorsHeaders == [k \in {} |-> Empty]

\* getCorsHeaders(event)
GetCorsHeaders(h, setting) ==
  LET origin == GetOriginHeader(h)
      allowedOrigins == GetAllowedOrigins(setting)
  IN  IF origin = Empty THEN NoCorsHeaders
      ELSE IF allowedOrigins # {} /\ origin \notin allowedOrigins THEN NoCorsHeaders
      ELSE CorsHeadersFor(origin)

\* responseHeaders(event, includeContentType)
ResponseHeaders(h, setting, includeContentType) ==
  Merge(IF includeContentType
        THEN [k \in {"Content-Type"} |-> <<"application/json">>]
        ELSE NoCorsHeaders,
        GetCorsHeaders(h, setting))

\* getTokenFromCookies(event, name): the cookie's percent-decoded value from
\* either representation, "" when there is none; for a value that does not
\* decode, the value as sent or "" (lenient).
GetTokenFromCookies(r, name, lenient) ==
  LET entries == r.cookies \o r.cookieHeader
      raw == ArrayFirst(entries, name)
      decoded == DecodeURIComponent(raw)
  IN  IF decoded.ok THEN decoded.val
      ELSE IF lenient = "raw" THEN raw ELSE Empty

\* Variant: the client id is not looked at.
ShouldRevokeWithoutClientId(refreshToken, cid) == Len(Trim(refreshToken)) > 0

\* refreshToken.trim().length > 0 && clientId && clientId.trim().length > 0
ShouldRevoke(refreshToken, cid) ==
  Len(Trim(refreshToken)) > 0 /\ cid # <<>> /\ Len(Trim(cid)) > 0

\* Variant: 204 and only the access_token cookie is cleared.
LogoutSuccessAccessOnly(r) ==
  [statusCode |-> 204, headers |-> JsonResponseHeaders(r),
   cookies |-> <<ClearAccessTokenCookie>>, body |-> PayloadBody("")]

LogoutSuccess(r) ==
  [statusCode |-> 200, headers |-> JsonResponseHeaders(r),
   cookies |-> <<ClearAccessTokenCookie, ClearRefreshTokenCookie>>,
   body |-> PayloadBody("success")]

\* The outer catch block for an unexpected error.
LogoutFailure(r) ==
  [statusCode |-> 500, headers |-> JsonResponseHeaders(r), cookies |-> <<>>,
   body |-> ErrorBody("Failed to logout due to internal server error")]

\* Variant: the revoke call is not wrapped in its own try/catch.
AfterRevokeUncaught(r, outcome) ==
  IF outcome = "rejects" THEN LogoutFailure(r) ELSE LogoutSuccess(r)

\* What logout returns once revokeToken settled: try { await revokeToken(..) }
\* catch {} swallows a rejection.
AfterRevoke(r, outcome) == LogoutSuccess(r)

\* ------------------------------------------------- lib/auth/request, handlers

\* event.body: absent, not JSON, or a JSON object with the fields read.
NoBody == [kind |-> "absent", refreshToken |-> Empty, username |-> "", password |-> ""]

InvalidJson ==
  [kind |-> "invalid", refreshToken |-> Empty, username |-> "", password |-> ""]

JsonBody(rt, u, p) ==
  [kind |-> "json", refreshToken |-> rt, username |-> u, password |-> p]

\* A refresh token sent in a body.
BodyToken == <<"b">>

CredentialBodies ==
  {NoBody, InvalidJson}
  \cup {JsonBody(rt, c[1], c[2]) :
          rt \in {Empty, BodyToken, <<" ">>},
          c \in {<<"", "">>, <<"u", "p">>, <<"u", "">>}}

\* The request r with the body b.
WithBody(r, b) ==
  [cookies |-> r.cookies, cookieHeader |-> r.cookieHeader, authzKey |-> r.authzKey,
   authz |-> r.authz, body |-> b]

\* A thrown value: nothing, a SyntaxError, a ProblemDetails, another error.
NoError == [kind |-> "none", status |-> 0, detail |-> ""]

SyntaxError == [kind |-> "syntax", status |-> 0, detail |-> ""]

OtherError == [kind |-> "error", status |-> 0, detail |-> ""]

\* createProblemDetails({ status, detail, .. })
ProblemDetails(status, detail) ==
  [kind |-> "problem", status |-> status, detail |-> detail]

\* body.refreshToken, trimmed, when it is a non-blank string; Empty otherwise.
BodyRefreshToken(b) ==
  IF b.kind = "json" /\ Len(Trim(b.refreshToken)) > 0
  THEN Trim(b.refreshToken) ELSE Empty

\* body.username && body.password
BodyHasPassword(b) == b.kind = "json" /\ b.username # "" /\ b.password # ""

\* What refresh and authenticate of lib/auth/cognito do with the identity
\* provider's answer: they return the tokens, or throw a ProblemDetails (the
\* provider rejected), or another error.
CognitoOutcomes ==
  {[kind |-> "response", AccessToken |-> JwtA, RefreshToken |-> Slashed],
   [kind |-> "response", AccessToken |-> JwtA, RefreshToken |-> Empty],
   [kind |-> "problem", AccessToken |-> Empty, RefreshToken |-> Empty],
   IssuerThrows}

\* What the call throws, NoError when it returns.
CognitoThrown(fn, o) ==
  IF o.kind = "response" THEN NoError
  ELSE IF o.kind = "problem"
  THEN ProblemDetails(401, IF fn = "refresh"
                           THEN "Invalid or expired refresh token"
                           ELSE "Invalid credentials")
  ELSE OtherError

\* What the call returns: for refresh, the refresh token sent stands in for one
\* not rotated.
CognitoResult(fn, sent, o) ==
  AuthOk(o.AccessToken,
         IF o.RefreshToken = Empty /\ fn = "refresh" THEN sent ELSE o.RefreshToken)

\* getHeader(event, "authorization") of the headers module that exports
\* parseBasicAuth: h[name.toLowerCase()].
GetHeaderLowerCase(r) ==
  IF ToLowerCase("authorization") \in HeaderKeys(r) THEN r.authz ELSE NoAuthz

\* Variant: the body's username and password are tried before its refresh token.
StepAfterBodyPasswordFirst(b) ==
  IF BodyHasPassword(b) THEN "bodyPassword"
  ELSE IF BodyRefreshToken(b) # Empty THEN "bodyRefresh"
  ELSE "basicHeader"

\* Where authenticateRequest goes after the client id check.
StepAfterBody(b) ==
  IF BodyRefreshToken(b) # Empty THEN "bodyRefresh"
  ELSE IF BodyHasPassword(b) THEN "bodyPassword"
  ELSE "basicHeader"

\* What the try block around the body leaves in bodyError when nothing was tried.
BodyParseError(b) == IF b.kind = "invalid" THEN SyntaxError ELSE NoError

\* parseBasicAuth(authzHeader) gave a username and a password.
BasicHasCredentials(h) ==
  /\ h.scheme = "Basic"
  /\ HasColon(Base64Decode(h.b64))
  /\ Head(Base64Decode(h.b64)) # ":"
  /\ Base64Decode(h.b64)[Len(Base64Decode(h.b64))] # ":"

\* What authenticateRequest throws when authenticate, called for the Basic
\* header, threw e.
BasicThrown(e) ==
  IF e.kind = "problem" THEN e
  ELSE ProblemDetails(401, "Basic authentication failed. Invalid username or password")

NoMethodDetail ==
  "No authentication method provided. Either provide username and password in request body or use basic auth"

\* Variant: step 3 forgets the error of the body attempt.
FinalErrorGeneric(e) == ProblemDetails(400, NoMethodDetail)

\* Step 3 of authenticateRequest: no method worked.
FinalError(e) ==
  IF e.kind = "syntax" THEN ProblemDetails(400, "Invalid JSON in request body")
  ELSE IF e.kind = "problem" THEN e
  ELSE ProblemDetails(400, NoMethodDetail)

\* JSON.stringify of a ProblemDetails: { type, status, title, detail }, type and
\* title being those the code gives with each status.
ProblemBody(e) ==
  [type |-> CASE e.status = 400 -> "badRequest"
              [] e.status = 401 -> "unauthorized"
              [] e.status = 500 -> "internalServerError",
   status |-> e.status,
   title |-> CASE e.status = 400 -> "Bad Request"
               [] e.status = 401 -> "Unauthorized"
               [] e.status = 500 -> "Internal Server Error",
   detail |-> e.detail]

\* jsonResponseHeaders(event, true)
ProblemResponseHeaders(r) == [k \in {"Content-Type"} |-> "application/problem+json"]

\* The catch blocks of the token and login handlers.
CredentialsFailure(o, r, e) ==
  IF e.kind = "problem"
  THEN [statusCode |-> e.status, headers |-> ProblemResponseHeaders(r),
        cookies |-> <<>>, body |-> ProblemBody(e)]
  ELSE [statusCode |-> 500, headers |-> ProblemResponseHeaders(r), cookies |-> <<>>,
        body |-> ProblemBody(ProblemDetails(500,
                   IF o = "token"
                   THEN "Failed to get token due to internal server error"
                   ELSE "Failed to login due to internal server error"))]

\* setAuthCookies(bearerToken, refreshToken)
SetAuthCookies(a) == IssuedCookies(a)

\* The answers to an authenticated request: the token handler returns the tokens
\* in the body, the login handler sets the cookies.
CredentialsSuccess(o, r, a) ==
  [statusCode |-> 200, headers |-> JsonResponseHeaders(r),
   cookies |-> IF o = "login" THEN SetAuthCookies(a) ELSE <<>>,
   body |-> PayloadBody(IF o = "token" THEN "tokens" ELSE "success")]

\* Variant: no handler looks for the body before authenticating.
RejectsMissingBodyNever(o, b) == FALSE

\* if (!event.body), which only the token handler has.
RejectsMissingBody(o, b) == o = "token" /\ b.kind = "absent"

\* The token handler's answer to a request without body.
MissingBodyResponse(r) ==
  [statusCode |-> 400, headers |-> ProblemResponseHeaders(r), cookies |-> <<>>,
   body |-> ProblemBody(ProblemDetails(400, "Missing request body"))]

\* ---------------------------------------------------------------- the system

VARIABLES
  clientId,      \* process.env.USER_POOL_CLIENT_ID, a string (<<>> when unset)
  op,            \* the endpoint the request in progress was sent to
  req,           \* the request in progress
  valid,         \* the tokens of the request the key provider would accept
  replayOf,      \* the exchange whose cookies the request sends back
  logoutRun,     \* how many logout requests in a row, this one included
  pc,            \* where the handler of the request stands
  bearerResult,  \* what verifyBearerFromEvent returned
  authResult,    \* withAuth's authResult
  refreshTok,    \* the refresh token read from the request
  exchange,      \* what the identity provider answered to this request
  requireAuth,   \* options.requireAuth, once withAuth has read it
  calls,         \* the calls made to collaborators, in order
  handlerOut,    \* what the protected handler did
  resp,          \* the response returned
  call,          \* a library function applied on its own: arguments and result
  bodyError,     \* authenticateRequest's bodyError
  inflight       \* the invocations of withAuth under way when two overlap

vars ==
  <<clientId, op, req, valid, replayOf, logoutRun, pc, bearerResult, authResult,
    refreshTok, exchange, requireAuth, calls, handlerOut, resp, call,
    bodyError, inflight>>

ClientIds == {<<>>, <<" ">>, <<"c">>}

NoExchange == [via |-> "none", sent |-> Empty, out |-> NoOutcome]

Call(name, arg) == [op |-> name, arg |-> arg]

Ops(log) == {log[i].op : i \in 1..Len(log)}

\* No function applied.
NoCall == [fn |-> "none"]

\* The state of the handlers before any request.
Quiet ==
  /\ op = "none"
  /\ req = NoRequest
  /\ valid = {}
  /\ replayOf = NoExchange
  /\ logoutRun = 0
  /\ pc = "idle"
  /\ bearerResult = NoResult
  /\ authResult = NoResult
  /\ refreshTok = Empty
  /\ exchange = NoExchange
  /\ requireAuth = "unread"
  /\ calls = <<>>
  /\ handlerOut = NotInvoked
  /\ resp = NoResponse
  /\ bodyError = NoError

\* Every payload, every outcome of jwtVerify and every combination of claims.
AllKinds ==
  {JwtKind(p, g, u, c, a) :
     p \in {"garbage", "noiss", "iss"},
     g \in {"ok", "expired", "bad_signature", "jwks_unreachable", "wrong_issuer"},
     u \in {"access", "id", "none", "other"},
     c \in {"this", "other", "none"},
     a \in AudClaims}

\* The library functions applied on their own, with a client id configured.
InitFn ==
  /\ call = NoCall
  /\ inflight = <<>>
  /\ clientId = <<"c">>
  /\ Quiet

\* verifyBearerFromEvent is applied to a token.
ApplyVerifyBearer ==
  /\ call = NoCall
  /\ \E token \in {Empty, Opaque, JwtA}, k \in AllKinds :
       call' = [fn |-> "verifyBearerFromEvent", token |-> token, kind |-> k,
                out |-> VerifyBearer(token, k)]
  /\ UNCHANGED <<inflight, clientId, op, req, valid, replayOf, logoutRun, pc, bearerResult,
                 authResult, refreshTok, exchange, requireAuth, calls, handlerOut,
                 resp, bodyError>>

\* refreshAccessToken is applied to a refresh token.
ApplyRefreshAccessToken ==
  /\ call = NoCall
  /\ \E refreshToken \in {Opaque, Slashed, EncSlashed, JwtB}, o \in IssuerOutcomes :
       call' = [fn |-> "refreshAccessToken", refreshToken |-> refreshToken,
                answer |-> o, out |-> RefreshAccessToken(refreshToken, o)]
  /\ UNCHANGED <<inflight, clientId, op, req, valid, replayOf, logoutRun, pc, bearerResult,
                 authResult, refreshTok, exchange, requireAuth, calls, handlerOut,
                 resp, bodyError>>

\* jsonResponseHeaders and corsOnlyHeaders are applied to an event.
ApplyResponseHeaders ==
  /\ call = NoCall
  /\ \E h \in OriginHeaders, setting \in AllowedOriginsSettings,
        includeContentType \in BOOLEAN :
       call' = [fn |-> "responseHeaders", headers |-> h, setting |-> setting,
                includeContentType |-> includeContentType,
                out |-> ResponseHeaders(h, setting, includeContentType)]
  /\ UNCHANGED <<inflight, clientId, op, req, valid, replayOf, logoutRun, pc, bearerResult,
                 authResult, refreshTok, exchange, requireAuth, calls, handlerOut,
                 resp, bodyError>>

NextFn ==
  \/ ApplyVerifyBearer
  \/ ApplyRefreshAccessToken
  \/ ApplyResponseHeaders

SpecFn == InitFn /\ [][NextFn]_vars

Init ==
  /\ call = NoCall
  /\ inflight = <<>>
  /\ clientId \in ClientIds
  /\ op = "none"
  /\ req = NoRequest
  /\ valid = {}
  /\ replayOf = NoExchange
  /\ logoutRun = 0
  /\ pc = "idle"
  /\ bearerResult = NoResult
  /\ authResult = NoResult
  /\ refreshTok = Empty
  /\ exchange = NoExchange
  /\ requireAuth = "unread"
  /\ calls = <<>>
  /\ handlerOut = NotInvoked
  /\ resp = NoResponse
  /\ bodyError = NoError

\* A request arrives: nothing of the previous request is kept by the server.
Arrives(o, r, V, replayed) ==
  /\ op' = o
  /\ req' = r
  /\ valid' = V
  /\ replayOf' = replayed
  /\ logoutRun' = IF o = "logout"
                  THEN (IF logoutRun < MaxLogoutRun THEN logoutRun + 1 ELSE logoutRun)
                  ELSE 0
  /\ pc' = "start"
  /\ bearerResult' = NoResult
  /\ authResult' = NoResult
  /\ refreshTok' = Empty
  /\ exchange' = NoExchange
  /\ requireAuth' = "unread"
  /\ calls' = <<>>
  /\ handlerOut' = NotInvoked
  /\ resp' = NoResponse
  /\ bodyError' = NoError
  /\ UNCHANGED <<inflight, call, clientId>>

\* A client sends a request to a protected endpoint.
NewRequest ==
  /\ pc = "idle"
  /\ \E r \in Requests :
       \E V \in SUBSET (VerifiableTokens \cap RequestTokens(r)) :
         Arrives("withAuth", r, V, NoExchange)

\* A client sends a request to the logout endpoint, which reads cookies only.
NewLogout ==
  /\ pc = "idle"
  /\ \E r \in Requests :
       /\ r.authzKey = ""
       /\ Arrives("logout", r, {}, NoExchange)

\* The cookies a client keeps from a response: those not expiring at once.
RECURSIVE JarOf(_)
JarOf(cookies) ==
  IF cookies = <<>> THEN <<>>
  ELSE (IF Head(cookies).maxAge > 0
        THEN <<[name |-> Head(cookies).name, value |-> Head(cookies).value]>>
        ELSE <<>>) \o JarOf(Tail(cookies))

\* Authorization headers a client may add when it sends its cookies back.
ReplayAuthz ==
  {[key |-> "", value |-> NoAuthz],
   [key |-> "authorization",
    value |-> [scheme |-> "Bearer", token |-> Opaque, b64 |-> ""]],
   [key |-> "Authorization",
    value |-> [scheme |-> "Basic", token |-> <<>>, b64 |-> "dTpw"]]}

\* A client sends the cookies of the response it just got back, as event.cookies
\* or as a Cookie header. The model follows a session for one such request.
Replay ==
  /\ pc = "done"
  /\ replayOf = NoExchange
  /\ exchange.via # "none"
  /\ op = "withAuth"
  /\ JarOf(resp.cookies) # <<>>
  /\ \E o \in {"withAuth", "logout"}, asArray \in BOOLEAN, h \in ReplayAuthz :
       LET r == [cookies |-> IF asArray THEN JarOf(resp.cookies) ELSE <<>>,
                 cookieHeader |-> IF asArray THEN <<>> ELSE JarOf(resp.cookies),
                 authzKey |-> h.key, authz |-> h.value]
       IN  /\ o = "logout" => h.key = ""
           /\ \E V \in SUBSET (VerifiableTokens \cap RequestTokens(r)) :
                /\ o = "logout" => V = {}
                /\ Arrives(o, r, V, exchange)

\* The response is returned.
Returns(response) ==
  /\ resp' = response
  /\ pc' = "done"

\* Variant: the client id is asserted to be there, not checked.
ClientIdMissingUnchecked(id) == FALSE

\* !clientId: unset or the empty string.
ClientIdMissing(id) == id = <<>>

\* withAuth up to the end of step 1: the client id, the cookies, the bearer token.
WithAuthBegin ==
  /\ pc = "start"
  /\ op = "withAuth"
  /\ UNCHANGED <<inflight, call, bodyError, clientId, op, req, valid, replayOf, logoutRun, exchange,
                 requireAuth, handlerOut>>
  /\ IF ClientIdMissing(clientId)
     THEN /\ Returns(ErrorResponse(req, 500, MisconfiguredMessage))
          /\ UNCHANGED <<bearerResult, authResult, refreshTok, calls>>
     ELSE IF ~ParseCookies(GetCookieHeader(req)).ok
     THEN /\ Returns(InternalErrorResponse(req))
          /\ UNCHANGED <<bearerResult, authResult, refreshTok, calls>>
     ELSE LET token == BearerCandidate(req)
              cookies == ParseCookies(GetCookieHeader(req)).map
          IN  \E k \in (IF token \in valid THEN GoodKinds ELSE BadKinds) :
                LET a == VerifyBearer(token, k)
                    rt == RefreshTokenToTry(req, cookies, a)
                IN  /\ bearerResult' = a
                    /\ authResult' = a
                    /\ refreshTok' = rt
                    /\ calls' = IF ReachesKeyProvider(token, k)
                                THEN <<Call("jwks", token)>> ELSE <<>>
                    /\ pc' = StepAfterBearer(a, rt)
                    /\ UNCHANGED resp

\* Step 2: the refresh token is exchanged.
WithAuthRefresh ==
  /\ pc = "refresh"
  /\ UNCHANGED <<inflight, call, bodyError, clientId, op, req, valid, replayOf, logoutRun, bearerResult,
                 refreshTok, requireAuth, handlerOut, resp>>
  /\ \E o \in IssuerOutcomes :
       LET refreshed == RefreshAccessToken(refreshTok, o)
       IN  /\ calls' = Append(calls, Call("refresh", refreshTok))
           /\ exchange' = [via |-> "refresh", sent |-> refreshTok, out |-> o]
           /\ authResult' = IF refreshed.ok /\ refreshed.bearerToken # Empty
                            THEN refreshed ELSE authResult
           /\ pc' = StepAfterRefresh(refreshed)

\* Step 3: Basic authentication, unless the header read says Bearer.
WithAuthBasic ==
  /\ pc = "basic"
  /\ UNCHANGED <<inflight, call, bodyError, clientId, op, req, valid, replayOf, logoutRun, bearerResult,
                 refreshTok, handlerOut>>
  /\ LET h == DirectAuthzHeader(req)
     IN  IF StartsWithBearer(h)
         THEN /\ \E required \in BOOLEAN :
                   /\ requireAuth' = IF required THEN "yes" ELSE "no"
                   /\ Returns(IF required
                              THEN ErrorResponse(req, authResult.statusCode,
                                                 authResult.message)
                              ELSE InternalErrorResponse(req))
              /\ UNCHANGED <<authResult, exchange, calls>>
         ELSE \E o \in (IF BasicCallsIssuer(h) THEN IssuerOutcomes ELSE {NoOutcome}) :
                LET basic == VerifyBasicWithCognito(h, o)
                IN  /\ calls' = IF BasicCallsIssuer(h)
                                THEN Append(calls, Call("password", Base64Decode(h.b64)))
                                ELSE calls
                    /\ exchange' = IF BasicCallsIssuer(h)
                                   THEN [via |-> "basic", sent |-> Empty, out |-> o]
                                   ELSE exchange
                    /\ IF basic.ok /\ basic.bearerToken # Empty
                       THEN /\ authResult' = basic
                            /\ pc' = "handler"
                            /\ UNCHANGED <<requireAuth, resp>>
                       ELSE /\ \E required \in BOOLEAN :
                                 /\ requireAuth' = IF required THEN "yes" ELSE "no"
                                 /\ Returns(IF required
                                            THEN BasicFailureResponse(req, authResult,
                                                                      basic, h)
                                            ELSE InternalErrorResponse(req))
                            /\ UNCHANGED authResult

\* The protected handler is awaited and withAuth returns.
WithAuthHandler ==
  /\ pc = "handler"
  /\ UNCHANGED <<inflight, call, bodyError, clientId, op, req, valid, replayOf, logoutRun, bearerResult,
                 authResult, refreshTok, exchange, requireAuth>>
  /\ \E h \in HandlerOutcomes :
       /\ calls' = Append(calls, Call("handler", authResult.bearerToken))
       /\ handlerOut' = h
       /\ Returns(AfterHandler(req, (IF bearerResult.ok THEN "none" ELSE exchange.via),
                               authResult, h))

\* The logout handler up to the revoke call.
LogoutBegin ==
  /\ pc = "start"
  /\ op = "logout"
  /\ UNCHANGED <<inflight, call, bodyError, clientId, op, req, valid, replayOf, logoutRun, bearerResult,
                 authResult, exchange, requireAuth, calls, handlerOut>>
  /\ \E lenient \in {"raw", "empty"} :
       LET refreshToken == GetTokenFromCookies(req, "refresh_token", lenient)
       IN  /\ refreshTok' = refreshToken
           /\ IF ShouldRevoke(refreshToken, clientId)
              THEN pc' = "revoke" /\ UNCHANGED resp
              ELSE Returns(LogoutSuccess(req))

\* revokeToken settles and the logout handler returns.
LogoutRevoke ==
  /\ pc = "revoke"
  /\ UNCHANGED <<inflight, call, bodyError, clientId, op, req, valid, replayOf, logoutRun, bearerResult,
                 authResult, refreshTok, requireAuth, handlerOut>>
  /\ \E outcome \in {"resolves", "rejects"} :
       /\ calls' = Append(calls, Call("revoke", refreshTok))
       /\ exchange' = [via |-> "revoke", sent |-> refreshTok,
                       out |-> IF outcome = "rejects" THEN IssuerThrows ELSE NoOutcome]
       /\ Returns(AfterRevoke(req, outcome))

\* A client sends a request to the token or the login endpoint.
NewCredentialsRequest ==
  /\ pc = "idle"
  /\ \E o \in {"token", "login"}, b \in CredentialBodies, r \in Requests :
       /\ r.cookies = <<>>
       /\ r.cookieHeader = <<>>
       /\ Arrives(o, WithBody(r, b), {}, NoExchange)

\* A client sends a request with a body to a protected endpoint.
NewRequestWithBody ==
  /\ pc = "idle"
  /\ \E r \in Requests :
       /\ Len(r.cookies) + Len(r.cookieHeader) <= 1
       /\ r.authzKey \in {"", "authorization"}
       /\ \E V \in SUBSET (VerifiableTokens \cap RequestTokens(r)) :
            Arrives("withAuth", WithBody(r, JsonBody(BodyToken, "", "")), V, NoExchange)

\* The handler's body check, and authenticateRequest up to its first call.
CredentialsBegin ==
  /\ pc = "start"
  /\ op \in {"token", "login"}
  /\ UNCHANGED <<inflight, call, clientId, op, req, valid, replayOf, logoutRun, bearerResult,
                 authResult, refreshTok, exchange, requireAuth, calls, handlerOut>>
  /\ IF RejectsMissingBody(op, req.body)
     THEN Returns(MissingBodyResponse(req)) /\ UNCHANGED bodyError
     ELSE IF Len(Trim(clientId)) = 0
     THEN /\ Returns(CredentialsFailure(op, req, ProblemDetails(500,
                 "Server misconfiguration. (USER_POOL_CLIENT_ID missing from env vars)")))
          /\ UNCHANGED bodyError
     ELSE /\ pc' = StepAfterBody(req.body)
          /\ bodyError' = BodyParseError(req.body)
          /\ UNCHANGED resp

\* refresh(body.refreshToken.trim(), clientId) settles.
CredentialsBodyRefresh ==
  /\ pc = "bodyRefresh"
  /\ UNCHANGED <<inflight, call, clientId, op, req, valid, replayOf, logoutRun, bearerResult,
                 requireAuth, handlerOut>>
  /\ \E o \in CognitoOutcomes :
       LET sent == BodyRefreshToken(req.body)
       IN  /\ refreshTok' = sent
           /\ calls' = Append(calls, Call("refresh", sent))
           /\ exchange' = [via |-> "bodyRefresh", sent |-> sent, out |-> o]
           /\ IF o.kind = "response"
              THEN /\ authResult' = CognitoResult("refresh", sent, o)
                   /\ Returns(CredentialsSuccess(op, req,
                                                 CognitoResult("refresh", sent, o)))
                   /\ UNCHANGED bodyError
              ELSE IF BodyHasPassword(req.body)
              THEN /\ pc' = "bodyPassword"
                   /\ UNCHANGED <<authResult, bodyError, resp>>
              ELSE /\ pc' = "basicHeader"
                   /\ bodyError' = CognitoThrown("refresh", o)
                   /\ UNCHANGED <<authResult, resp>>

\* authenticate(body.username, body.password, clientId) settles.
CredentialsBodyPassword ==
  /\ pc = "bodyPassword"
  /\ UNCHANGED <<inflight, call, clientId, op, req, valid, replayOf, logoutRun, bearerResult,
                 refreshTok, requireAuth, handlerOut>>
  /\ \E o \in CognitoOutcomes :
       /\ calls' = Append(calls, Call("password", <<req.body.username, ":",
                                                   req.body.password>>))
       /\ exchange' = [via |-> "bodyPassword", sent |-> Empty, out |-> o]
       /\ IF o.kind = "response"
          THEN /\ authResult' = CognitoResult("authenticate", Empty, o)
               /\ Returns(CredentialsSuccess(op, req,
                                             CognitoResult("authenticate", Empty, o)))
               /\ UNCHANGED bodyError
          ELSE /\ pc' = "basicHeader"
               /\ bodyError' = CognitoThrown("authenticate", o)
               /\ UNCHANGED <<authResult, resp>>

\* The Basic header fallback and step 3 of authenticateRequest; the handler
\* returns.
CredentialsBasic ==
  /\ pc = "basicHeader"
  /\ UNCHANGED <<inflight, call, bodyError, clientId, op, req, valid, replayOf, logoutRun,
                 bearerResult, refreshTok, requireAuth, handlerOut>>
  /\ LET h == GetHeaderLowerCase(req)
     IN  IF h.scheme # "Basic"
         THEN /\ Returns(CredentialsFailure(op, req, FinalError(bodyError)))
              /\ UNCHANGED <<authResult, exchange, calls>>
         ELSE IF ~BasicHasCredentials(h)
         THEN /\ Returns(CredentialsFailure(op, req, ProblemDetails(400,
                     "Basic auth missing username or password")))
              /\ UNCHANGED <<authResult, exchange, calls>>
         ELSE \E o \in CognitoOutcomes :
                /\ calls' = Append(calls, Call("password", Base64Decode(h.b64)))
                /\ exchange' = [via |-> "basicHeader", sent |-> Empty, out |-> o]
                /\ IF o.kind = "response"
                   THEN /\ authResult' = CognitoResult("authenticate", Empty, o)
                        /\ Returns(CredentialsSuccess(op, req,
                                      CognitoResult("authenticate", Empty, o)))
                   ELSE /\ Returns(CredentialsFailure(op, req,
                                      BasicThrown(CognitoThrown("authenticate", o))))
                        /\ UNCHANGED authResult

\* The invocation ends; the server keeps nothing of the request.
Completes ==
  /\ pc = "done"
  /\ pc' = "idle"
  /\ op' = "none"
  /\ req' = NoRequest
  /\ valid' = {}
  /\ replayOf' = NoExchange
  /\ bearerResult' = NoResult
  /\ authResult' = NoResult
  /\ refreshTok' = Empty
  /\ exchange' = NoExchange
  /\ requireAuth' = "unread"
  /\ calls' = <<>>
  /\ handlerOut' = NotInvoked
  /\ resp' = NoResponse
  /\ bodyError' = NoError
  /\ UNCHANGED <<inflight, call, clientId, logoutRun>>

Next ==
  \/ NewRequest
  \/ NewLogout
  \/ Replay
  \/ WithAuthBegin
  \/ WithAuthRefresh
  \/ WithAuthBasic
  \/ WithAuthHandler
  \/ LogoutBegin
  \/ LogoutRevoke
  \/ NewCredentialsRequest
  \/ NewRequestWithBody
  \/ CredentialsBegin
  \/ CredentialsBodyRefresh
  \/ CredentialsBodyPassword
  \/ CredentialsBasic
  \/ Completes

Spec == Init /\ [][Next]_vars

\* ------------------------------------ two invocations of withAuth overlapping

\* The process awaits the key provider, the identity provider and the handler:
\* while one invocation of withAuth waits, the event loop may run another.  Each
\* invocation has its own locals (event, authResult, refreshToken, ..); the
\* module's own state is the client of the identity provider and the
\* environment, neither of which withAuth writes.

PairRequest(cookies, key, authz) ==
  [cookies |-> cookies, cookieHeader |-> <<>>, authzKey |-> key, authz |-> authz]

\* The requests two clients send at the same time.
PairRequests ==
  {PairRequest(<<>>, "", NoAuthz),
   PairRequest(<<[name |-> "access_token", value |-> JwtA]>>, "", NoAuthz),
   PairRequest(<<[name |-> "access_token", value |-> JwtB],
                 [name |-> "refresh_token", value |-> Opaque]>>, "", NoAuthz),
   PairRequest(<<[name |-> "refresh_token", value |-> EncSlashed]>>, "authorization",
               [scheme |-> "Basic", token |-> <<>>, b64 |-> "dTpw"]),
   PairRequest(<<>>, "authorization",
               [scheme |-> "Basic", token |-> <<>>, b64 |-> "dTpw"]),
   PairRequest(<<>>, "Authorization",
               [scheme |-> "Bearer", token |-> JwtA, b64 |-> ""])}

\* What the tokens of these requests may be.
PairKinds ==
  {JwtKind("iss", "ok", "access", "this", "none"),
   JwtKind("iss", "expired", "access", "this", "none"),
   JwtKind("garbage", "throw", "none", "none", "none")}

NoKind == JwtKind("none", "none", "none", "none", "none")

\* What the identity provider may answer to them.
PairIssuerOutcomes ==
  {IssuerThrows,
   [kind |-> "response", AccessToken |-> JwtA, RefreshToken |-> Slashed],
   [kind |-> "response", AccessToken |-> Slashed, RefreshToken |-> Empty],
   [kind |-> "response", AccessToken |-> Empty, RefreshToken |-> Empty]}

\* A cookie of the handler's own, as a handler may put in its response's cookies.
HandlerCookie ==
  [name |-> "theme", value |-> <<"a">>, attrs |-> <<"Path=/">>, maxAge |-> 600]

\* What a protected handler may do for them: throw, return a response without
\* cookies as the handlers of the repository do, or return one with a cookie.
PairHandlerOutcomes ==
  {HandlerThrows,
   HandlerResponse(200, NoHeaders, "methodResponses"),
   [HandlerResponse(200, NoHeaders, "methodResponses") EXCEPT
      !.cookies = <<HandlerCookie>>]}

Slots == {1, 2}

\* The locals of an invocation that has just been entered, and what the
\* collaborators answered to it (nothing yet).
NewInvocation(r) ==
  [req |-> r, pc |-> "start", kind |-> NoKind, bearerResult |-> NoResult,
   authResult |-> NoResult, refreshTok |-> Empty, refreshOut |-> NoOutcome,
   basicOut |-> NoOutcome, requireAuth |-> "unread", calls |-> <<>>,
   handlerOut |-> NotInvoked, resp |-> NoResponse, overlapped |-> FALSE]

\* Variant: authResult is a variable of the module, which the first invocation
\* writes and both read.
AuthResultOfModule(f, i) == f[1].authResult

\* let authResult, declared inside the function withAuth returns.
AuthResultOf(f, i) == f[i].authResult

\* The other invocation is between its first await and its return.
OtherUnderWay(f, i) == \E j \in Slots \ {i} : f[j].pc \notin {"start", "done"}

\* withAuth(handler)(event) run without interruption: the response it returns
\* when the key provider says k of the token, the identity provider answers
\* oRefresh to the refresh and oBasic to the password authentication, and the
\* handler does h.
WithAuthAlone(r, cid, k, oRefresh, oBasic, h, required) ==
  IF ClientIdMissing(cid) THEN ErrorResponse(r, 500, MisconfiguredMessage)
  ELSE IF ~ParseCookies(GetCookieHeader(r)).ok THEN InternalErrorResponse(r)
  ELSE
    LET a == VerifyBearer(BearerCandidate(r), k)
        rt == RefreshTokenToTry(r, ParseCookies(GetCookieHeader(r)).map, a)
        refreshed == RefreshAccessToken(rt, oRefresh)
        hd == DirectAuthzHeader(r)
        basic == VerifyBasicWithCognito(hd, oBasic)
    IN  IF a.ok THEN AfterHandler(r, "none", a, h)
        ELSE IF rt # Empty /\ refreshed.ok /\ refreshed.bearerToken # Empty
        THEN AfterHandler(r, "refresh", refreshed, h)
        ELSE IF StartsWithBearer(hd)
        THEN (IF required THEN ErrorResponse(r, a.statusCode, a.message)
              ELSE InternalErrorResponse(r))
        ELSE IF basic.ok /\ basic.bearerToken # Empty
        THEN AfterHandler(r, "basic", basic, h)
        ELSE IF required THEN BasicFailureResponse(r, a, basic, hd)
        ELSE InternalErrorResponse(r)

\* Two requests have arrived and neither invocation has run yet.
InitPair ==
  /\ call = NoCall
  /\ clientId \in ClientIds
  /\ Quiet
  /\ inflight \in [Slots -> {NewInvocation(r) : r \in PairRequests}]

PairFrame ==
  UNCHANGED <<clientId, op, req, valid, replayOf, logoutRun, pc, bearerResult,
              authResult, refreshTok, exchange, requireAuth, calls, handlerOut,
              resp, call, bodyError>>

\* Invocation i goes on to the locals s.
Resumes(i, s) ==
  inflight' = [inflight EXCEPT
                 ![i] = [s EXCEPT !.overlapped = @ \/ OtherUnderWay(inflight, i)]]

\* An invocation runs up to the end of step 1 (as WithAuthBegin).
PairBegin ==
  /\ PairFrame
  /\ \E i \in Slots :
       LET s == inflight[i]
       IN  /\ s.pc = "start"
           /\ IF ClientIdMissing(clientId)
              THEN Resumes(i, [s EXCEPT !.pc = "done",
                     !.resp = ErrorResponse(s.req, 500, MisconfiguredMessage)])
              ELSE IF ~ParseCookies(GetCookieHeader(s.req)).ok
              THEN Resumes(i, [s EXCEPT !.pc = "done",
                                        !.resp = InternalErrorResponse(s.req)])
              ELSE \E k \in PairKinds :
                     LET token == BearerCandidate(s.req)
                         a == VerifyBearer(token, k)
                         rt == RefreshTokenToTry(s.req,
                                 ParseCookies(GetCookieHeader(s.req)).map, a)
                     IN  Resumes(i, [s EXCEPT
                           !.kind = k, !.bearerResult = a, !.authResult = a,
                           !.refreshTok = rt,
                           !.calls = IF ReachesKeyProvider(token, k)
                                     THEN <<Call("jwks", token)>> ELSE <<>>,
                           !.pc = StepAfterBearer(a, rt)])

\* An invocation's refresh settles (as WithAuthRefresh).
PairRefresh ==
  /\ PairFrame
  /\ \E i \in Slots, o \in PairIssuerOutcomes :
       LET s == inflight[i]
           refreshed == RefreshAccessToken(s.refreshTok, o)
       IN  /\ s.pc = "refresh"
           /\ Resumes(i, [s EXCEPT
                !.refreshOut = o,
                !.calls = Append(@, Call("refresh", s.refreshTok)),
                !.authResult = IF refreshed.ok /\ refreshed.bearerToken # Empty
                               THEN refreshed ELSE AuthResultOf(inflight, i),
                !.pc = StepAfterRefresh(refreshed)])

\* An invocation's Basic step (as WithAuthBasic).
PairBasic ==
  /\ PairFrame
  /\ \E i \in Slots :
       LET s == inflight[i]
           h == DirectAuthzHeader(s.req)
           denied(t, response, required) ==
             [t EXCEPT !.requireAuth = IF required THEN "yes" ELSE "no",
                       !.pc = "done",
                       !.resp = IF required THEN response
                                ELSE InternalErrorResponse(s.req)]
       IN  /\ s.pc = "basic"
           /\ IF StartsWithBearer(h)
              THEN \E required \in BOOLEAN :
                     Resumes(i, denied(s, ErrorResponse(s.req,
                                            AuthResultOf(inflight, i).statusCode,
                                            AuthResultOf(inflight, i).message),
                                       required))
              ELSE \E o \in (IF BasicCallsIssuer(h) THEN PairIssuerOutcomes
                             ELSE {NoOutcome}) :
                     LET basic == VerifyBasicWithCognito(h, o)
                         t == [s EXCEPT
                                 !.basicOut = o,
                                 !.calls = IF BasicCallsIssuer(h)
                                           THEN Append(@, Call("password",
                                                               Base64Decode(h.b64)))
                                           ELSE @]
                     IN  IF basic.ok /\ basic.bearerToken # Empty
                         THEN Resumes(i, [t EXCEPT !.authResult = basic,
                                                   !.pc = "handler"])
                         ELSE \E required \in BOOLEAN :
                                Resumes(i, denied(t, BasicFailureResponse(s.req,
                                                       AuthResultOf(inflight, i),
                                                       basic, h),
                                                  required))

\* The step that authenticated an invocation: "none" for a verified bearer token.
PairVia(s) ==
  IF s.bearerResult.ok THEN "none"
  ELSE IF s.basicOut # NoOutcome THEN "basic" ELSE "refresh"

\* An invocation's handler settles and withAuth returns (as WithAuthHandler).
PairHandler ==
  /\ PairFrame
  /\ \E i \in Slots, h \in PairHandlerOutcomes :
       LET s == inflight[i]
       IN  /\ s.pc = "handler"
           /\ Resumes(i, [s EXCEPT
                !.calls = Append(@, Call("handler",
                                         AuthResultOf(inflight, i).bearerToken)),
                !.handlerOut = h,
                !.pc = "done",
                !.resp = AfterHandler(s.req, PairVia(s), AuthResultOf(inflight, i), h)])

NextPair ==
  \/ PairBegin
  \/ PairRefresh
  \/ PairBasic
  \/ PairHandler

SpecPair == InitPair /\ [][NextPair]_vars

\* -------------------------------------------------------------- properties

\* The entries of both cookie representations of the request.
CookieEntries == req.cookies \o req.cookieHeader

CookieNamed(n) == \E i \in 1..Len(CookieEntries) : CookieEntries[i].name = n

\* A cookie of that name with a value is sent.
CookieSent(n) ==
  \E i \in 1..Len(CookieEntries) :
    CookieEntries[i].name = n /\ CookieEntries[i].value # Empty

\* withAuth runs with a client id configured.
Protected == op = "withAuth" /\ clientId # <<>>

\* The identity provider answered the exchange of this request with tokens.
Issued(via) ==
  /\ exchange.via = via
  /\ exchange.out.kind = "response"
  /\ exchange.out.AccessToken # Empty

\* The Set-Cookie values of the tokens the identity provider issued.
ExpectedCookies ==
  <<AccessTokenCookie(exchange.out.AccessToken, DEFAULT_COOKIE_MAX_AGE)>>
  \o (IF exchange.out.RefreshToken # Empty
      THEN <<RefreshTokenCookie(exchange.out.RefreshToken, REFRESH_TOKEN_MAX_AGE)>>
      ELSE IF exchange.via = "refresh"
      THEN <<RefreshTokenCookie(exchange.sent, REFRESH_TOKEN_MAX_AGE)>>
      ELSE <<>>)

CookieNames(cookies) == [i \in 1..Len(cookies) |-> cookies[i].name]

\* C1, as stated, for requests without any cookie: when the Authorization header
\* carries a Bearer token that verifyBearerFromEvent picked and rejected, and
\* auth is required, no password authentication is made and the response has the
\* status and the message of the bearer failure.
C1_BearerFailureReturned ==
  (/\ Protected
   /\ pc = "done"
   /\ requireAuth # "no"
   /\ CookieEntries = <<>>
   /\ req.authz.scheme = "Bearer"
   /\ ~bearerResult.ok
   /\ bearerResult.message # "Missing Bearer token")
  => /\ "password" \notin Ops(calls)
     /\ resp.statusCode = bearerResult.statusCode
     /\ resp.body = ErrorBody(bearerResult.message)

\* The request carries nothing but one access_token cookie, which the key
\* provider would accept.
OnlyValidAccessCookie ==
  /\ req.authzKey = ""
  /\ Len(CookieEntries) = 1
  /\ CookieEntries[1].name = "access_token"
  /\ CookieEntries[1].value \in valid

\* C2: a request bearing only a valid access_token cookie goes from verification
\* straight to the handler: the bearer verification succeeds, the handler is
\* invoked with the cookie's token, and neither a refresh nor a password
\* authentication is ever requested from the identity provider.
C2_ValidCookieVerificationOnly ==
  (Protected /\ OnlyValidAccessCookie)
  => /\ pc \in {"start", "handler", "done"}
     /\ pc = "handler" =>
          /\ bearerResult.ok
          /\ calls = <<Call("jwks", CookieEntries[1].value)>>
     /\ pc = "done" =>
          /\ bearerResult.ok
          /\ calls = <<Call("jwks", CookieEntries[1].value),
                       Call("handler", CookieEntries[1].value)>>

C2_Witness ==
  /\ Protected
  /\ OnlyValidAccessCookie
  /\ pc = "done"
  /\ handlerOut.kind = "returns"
  /\ resp.statusCode = 200

\* The request bears an access_token cookie whose value verifyBearerFromEvent
\* rejected, and a refresh_token cookie; its Cookie header, if any, decodes.
ExpiredAccessWithRefresh ==
  /\ CookieSent("access_token")
  /\ CookieSent("refresh_token")
  /\ ParseCookies(GetCookieHeader(req)).ok
  /\ pc # "start"
  /\ ~bearerResult.ok

\* C3: for a request bearing an access_token cookie that fails verification and
\* a refresh_token cookie, withAuth asks the identity provider for a refresh
\* right after the verification; when the provider accepts, the handler is
\* invoked, and the response of a handler that returns carries the handler's
\* status and exactly two Set-Cookie values, access_token and refresh_token,
\* holding the tokens of the refresh.
C3_RefreshThenHandlerWithBothCookies ==
  (Protected /\ ExpiredAccessWithRefresh)
  => /\ pc = "refresh" \/ "refresh" \in Ops(calls)
     /\ "password" \in Ops(calls) => ~Issued("refresh")
     /\ (pc = "done" /\ Issued("refresh")) =>
          /\ "handler" \in Ops(calls)
          /\ handlerOut.kind = "returns" =>
               /\ resp.statusCode = handlerOut.statusCode
               /\ resp.cookies = ExpectedCookies
               /\ CookieNames(resp.cookies) = <<"access_token", "refresh_token">>

C3_Witness ==
  /\ Protected
  /\ ExpiredAccessWithRefresh
  /\ pc = "done"
  /\ Issued("refresh")
  /\ exchange.out.RefreshToken = Empty
  /\ handlerOut.kind = "returns"
  /\ resp.statusCode = 200
  /\ Len(resp.cookies) = 2

\* C4, as stated: after a refresh or a Basic exchange in which the identity
\* provider returned an access token and a refresh token, the response carries
\* an access_token cookie and a refresh_token cookie.
C4_PairAfterExchange ==
  (/\ Protected
   /\ pc = "done"
   /\ Issued("refresh") \/ Issued("basic")
   /\ exchange.out.RefreshToken # Empty)
  => CookieNames(resp.cookies) = <<"access_token", "refresh_token">>

\* C5, as stated: whenever the identity provider issued tokens to withAuth, by
\* refresh or by Basic exchange, the response returned carries the Set-Cookie
\* values computed from them, whatever the handler did.
C5_CookiesWhateverHandlerDoes ==
  (/\ Protected
   /\ pc = "done"
   /\ Issued("refresh") \/ Issued("basic"))
  => resp.cookies = ExpectedCookies

\* The response clears both cookies: Max-Age=0 for access_token and refresh_token.
ClearsBothCookies ==
  /\ CookieNames(resp.cookies) = <<"access_token", "refresh_token">>
  /\ \A i \in 1..Len(resp.cookies) : resp.cookies[i].maxAge = 0

C7_RevokeFailureDiscarded ==
  (/\ op = "logout"
   /\ pc = "done"
   /\ calls = <<Call("revoke", refreshTok)>>
   /\ exchange.out = IssuerThrows)
  => /\ resp.statusCode = 200
     /\ resp.body = PayloadBody("success")
     /\ resp.cookies = <<ClearAccessTokenCookie, ClearRefreshTokenCookie>>

C7_Witness ==
  /\ op = "logout"
  /\ pc = "done"
  /\ calls = <<Call("revoke", refreshTok)>>
  /\ exchange.out = IssuerThrows
  /\ resp.statusCode = 200

\* The request has no Authorization header under any name and no cookie.
NoCredentials == req.authzKey = "" /\ CookieEntries = <<>>

\* C8: a request without Authorization header and without cookies to a handler
\* that requires auth makes no call at all (no key lookup, no identity provider
\* call, no handler) and is answered 401 with the message "No authentication
\* method provided. ...".
C8_NoCredentialsNoAuthMessage ==
  (Protected /\ NoCredentials /\ requireAuth # "no")
  => /\ calls = <<>>
     /\ pc \in {"start", "basic", "done"}
     /\ pc = "done" =>
          /\ resp.statusCode = 401
          /\ resp.body = ErrorBody(NoAuthMessage)

C8_Witness ==
  /\ Protected
  /\ NoCredentials
  /\ requireAuth = "yes"
  /\ pc = "done"
  /\ resp.statusCode = 401
  /\ handlerOut = NotInvoked

\* A credential of the request was picked up and rejected: a bearer token by
\* verifyBearerFromEvent, a refresh token or a password by the identity provider.
CredentialRejected ==
  \/ ~bearerResult.ok /\ bearerResult.message \notin {"", "Missing Bearer token"}
  \/ "refresh" \in Ops(calls) /\ ~Issued("refresh")
  \/ "password" \in Ops(calls) /\ ~Issued("basic")

\* C9, as stated: a request of which a credential was rejected is never answered
\* with the message "No authentication method provided. ...".
C9_NoAuthMessageOnlyWithoutCredentials ==
  (Protected /\ pc = "done" /\ CredentialRejected)
  => resp.body # ErrorBody(NoAuthMessage)

\* The request sends back the cookies of a Basic exchange, and the key provider
\* still accepts the access token issued.
ReplayedBasicPair ==
  /\ replayOf.via = "basic"
  /\ replayOf.out.kind = "response"
  /\ replayOf.out.AccessToken \in valid

\* C10: a request that sends back the cookies set after a Basic exchange, while
\* the access token is valid, is authenticated by verifying that token: the
\* handler is invoked with it, and no refresh and no password authentication is
\* requested, whatever Authorization header comes along.
C10_ReplayedPairVerifiesAlone ==
  (Protected /\ ReplayedBasicPair)
  => /\ pc \in {"start", "handler", "done"}
     /\ pc # "start" =>
          /\ bearerResult.ok
          /\ bearerResult.bearerToken = replayOf.out.AccessToken
          /\ Ops(calls) \subseteq {"jwks", "handler"}
     /\ pc = "done" => "handler" \in Ops(calls)

C10_Witness ==
  /\ Protected
  /\ ReplayedBasicPair
  /\ replayOf.out.RefreshToken # Empty
  /\ Len(CookieEntries) = 2
  /\ req.authz.scheme = "Bearer"
  /\ pc = "done"
  /\ handlerOut.kind = "returns"
  /\ resp.statusCode = 200

\* The place of a call in the order of withAuth's steps.
CallRank(name) ==
  CASE name = "jwks" -> 1
    [] name = "refresh" -> 2
    [] name = "password" -> 3
    [] name = "handler" -> 4

\* C11: the external calls of one request are made one after the other, in the
\* order key lookup, refresh, password authentication, each at most once: a
\* refresh starts only when the bearer verification has returned its failure,
\* and the Basic step starts only when the refresh, if one was made, has
\* returned its answer.
C11_CallsStrictlyInSequence ==
  op = "withAuth"
  => /\ \A i, j \in 1..Len(calls) :
          i < j => CallRank(calls[i].op) < CallRank(calls[j].op)
     /\ pc = "refresh" => (bearerResult # NoResult /\ ~bearerResult.ok)
     /\ "refresh" \in Ops(calls) =>
          (bearerResult # NoResult /\ ~bearerResult.ok)
     /\ (pc = "basic" /\ "refresh" \in Ops(calls)) =>
          (exchange.via = "refresh" /\ exchange.out # NoOutcome)

C11_Witness ==
  /\ op = "withAuth"
  /\ Len(calls) = 3
  /\ calls[1].op = "jwks"
  /\ calls[2].op = "refresh"
  /\ calls[3].op = "password"
  /\ pc = "done"

\* The refresh call of this request was made and gave no tokens.
RefreshFailed == "refresh" \in Ops(calls) /\ ~Issued("refresh")

\* The messages of a denial by verifyBasicWithCognito.
BasicMessages ==
  {"Missing Basic auth", "Invalid Basic format", "Invalid credentials",
   "No access token from Cognito"}

\* C12: with auth required, a key lookup or a refresh that fails does not end
\* the request with a 500: the request goes on to the next step and, when it is
\* denied, the answer is a denial (400, 401 or 502). After a failed refresh the
\* Basic step runs unless the header it reads says Bearer: the denial is then
\* the Basic step's, and credentials in that header are sent to the identity
\* provider.
C12_FailedCallsAreDenials ==
  (Protected /\ requireAuth # "no")
  => /\ (pc = "done" /\ "jwks" \in Ops(calls) /\ ~bearerResult.ok
         /\ "handler" \notin Ops(calls))
          => resp.statusCode \in {400, 401, 502}
     /\ RefreshFailed =>
          /\ pc \in {"basic", "handler", "done"}
          /\ pc = "handler" => "password" \in Ops(calls)
          /\ (pc = "done" /\ "handler" \notin Ops(calls)) =>
               /\ resp.statusCode \in {400, 401, 502}
               /\ ~StartsWithBearer(DirectAuthzHeader(req)) =>
                    resp.body.error \in BasicMessages \cup {NoAuthMessage}
               /\ BasicCallsIssuer(DirectAuthzHeader(req)) =>
                    "password" \in Ops(calls)

C12_Witness ==
  /\ Protected
  /\ RefreshFailed
  /\ "jwks" \in Ops(calls)
  /\ Issued("basic")
  /\ pc = "done"
  /\ resp.statusCode = 200

\* The values, percent-decoded, of the access_token cookies the request sends.
AccessCookieValues ==
  {DecodeURIComponent(CookieEntries[i].value).val :
     i \in {j \in 1..Len(CookieEntries) :
              /\ CookieEntries[j].name = "access_token"
              /\ CookieEntries[j].value # Empty}}

RefreshCookieValues ==
  {req.cookies[i].value :
     i \in {j \in 1..Len(req.cookies) : req.cookies[j].name = "refresh_token"}}
  \cup {DecodeURIComponent(req.cookieHeader[i].value).val :
          i \in {j \in 1..Len(req.cookieHeader) :
                   req.cookieHeader[j].name = "refresh_token"}}

\* The refresh tokens sent to the identity provider for this request.
RefreshArgs == {calls[i].arg : i \in {j \in 1..Len(calls) : calls[j].op = "refresh"}}

\* The request has a JSON body.
HasBody == "body" \in DOMAIN req

\* C14: withAuth exchanges only the value of a refresh_token cookie of the
\* request, never a token of a header or of the body; authenticateRequest (the
\* token and login endpoints) exchanges only the trimmed refreshToken field of
\* the JSON body; the logout handler requests no refresh.
C14_RefreshTokenSource ==
  /\ op = "withAuth" => RefreshArgs \subseteq (RefreshCookieValues \ {Empty})
  /\ op \in {"token", "login"} =>
       RefreshArgs \subseteq ({Trim(req.body.refreshToken)} \ {Empty})
  /\ op = "logout" => RefreshArgs = {}

\* A protected request with a refresh token in its body, another in a cookie and
\* a Bearer header: the cookie's token was exchanged.
C14_Witness ==
  /\ op = "withAuth"
  /\ HasBody
  /\ req.body.refreshToken = BodyToken
  /\ req.authz.scheme = "Bearer"
  /\ RefreshArgs # {}
  /\ BodyToken \notin RefreshArgs
  /\ req.authz.token \notin RefreshArgs

\* C14 as stated: every refresh token exchanged is the value of a refresh_token
\* cookie of the request.
C14_OnlyFromCookie == RefreshArgs \subseteq RefreshCookieValues

\* verifyBearerFromEvent was applied to a token that got as far as jwtVerify.
VerifiedCall ==
  /\ call.fn = "verifyBearerFromEvent"
  /\ ReachesKeyProvider(call.token, call.kind)

\* C15: whatever makes jwtVerify throw (expired token, bad signature, key set
\* not fetched, wrong issuer), verifyBearerFromEvent returns the same denial,
\* 401 "Invalid token".
C15_VerificationFailuresCollapse ==
  (VerifiedCall /\ call.kind.sig # "ok") => call.out = AuthFail(401, "Invalid token")

C15_Witness ==
  /\ VerifiedCall
  /\ call.kind.sig = "expired"
  /\ call.out = AuthFail(401, "Invalid token")

\* C16: after jwtVerify resolved, verifyBearerFromEvent authenticates exactly
\* when token_use is access and client_id is the expected client id, or
\* token_use is not access, is id or comes with an audience claim, and the
\* audience (string or array) contains the expected client id; it answers 401
\* "Invalid token" otherwise.
C16_ClaimsDecideAuthentication ==
  (VerifiedCall /\ call.kind.sig = "ok") =>
    LET k == call.kind
        accepted ==
          \/ k.token_use = "access" /\ k.client_id = "this"
          \/ /\ k.token_use # "access"
             /\ k.token_use = "id" \/ k.aud \notin {"none", "empty_string"}
             /\ k.aud \in {"this", "array_with_this"}
    IN  /\ call.out.ok = accepted
        /\ call.out.ok => call.out = AuthOk(call.token, Empty)
        /\ ~call.out.ok => call.out = AuthFail(401, "Invalid token")

\* An access token of another client whose audience names this client is denied.
C16_Witness ==
  /\ VerifiedCall
  /\ call.kind.sig = "ok"
  /\ call.kind.token_use = "access"
  /\ call.kind.client_id = "other"
  /\ call.kind.aud = "this"
  /\ call.out = AuthFail(401, "Invalid token")

\* C16 as stated: the audience alternative applies to access tokens too.
C16_AudienceAlternativeForAnyToken ==
  (VerifiedCall /\ call.kind.sig = "ok") =>
    LET k == call.kind
    IN  call.out.ok =
          (\/ k.token_use = "access" /\ k.client_id = "this"
           \/ /\ k.token_use = "id" \/ k.aud \notin {"none", "empty_string"}
              /\ k.aud \in {"this", "array_with_this"})

\* withAuth asked the identity provider to authenticate the Basic credentials
\* and got no access token.
BasicDenied ==
  /\ Protected
  /\ exchange.via = "basic"
  /\ ~Issued("basic")

\* C17: when the identity provider rejects the Basic credentials or the call
\* fails, the denial is 401 "Invalid credentials"; when it answers without an
\* access token, the denial is 502; withAuth, when authentication is required,
\* answers with the denial's status and message, sets no cookie and does not
\* invoke the handler.
C17_BasicDenialReachesResponse ==
  BasicDenied =>
    /\ pc = "done"
    /\ handlerOut = NotInvoked
    /\ "handler" \notin Ops(calls)
    /\ requireAuth = "yes" =>
         /\ resp.cookies = <<>>
         /\ resp.headers = JsonResponseHeaders(req)
         /\ exchange.out.kind = "throw" =>
              resp.statusCode = 401 /\ resp.body = ErrorBody("Invalid credentials")
         /\ exchange.out.kind = "response" =>
              /\ resp.statusCode = 502
              /\ resp.body = ErrorBody("No access token from Cognito")

\* The identity provider answered with a refresh token and no access token.
C17_Witness ==
  /\ BasicDenied
  /\ requireAuth = "yes"
  /\ exchange.out.kind = "response"
  /\ exchange.out.RefreshToken # Empty
  /\ resp.statusCode = 502

\* C18: refreshAccessToken returns the new access token with the rotated
\* refresh token when the identity provider issued one and with the refresh
\* token sent otherwise; when the call fails or is rejected it returns 401
\* "Invalid or expired refresh token"; when the answer has no access token it
\* returns 502 "No access token from Cognito".
C18_RefreshResult ==
  call.fn = "refreshAccessToken" =>
    LET o == call.answer
    IN  /\ (o.kind = "response" /\ o.AccessToken # Empty) =>
             /\ call.out.ok
             /\ call.out.bearerToken = o.AccessToken
             /\ o.RefreshToken # Empty => call.out.refreshToken = o.RefreshToken
             /\ o.RefreshToken = Empty => call.out.refreshToken = call.refreshToken
        /\ o.kind = "throw" =>
             call.out = AuthFail(401, "Invalid or expired refresh token")
        /\ (o.kind = "response" /\ o.AccessToken = Empty) =>
             call.out = AuthFail(502, "No access token from Cognito")

\* A rotated refresh token replaced the one sent.
C18_Witness ==
  /\ call.fn = "refreshAccessToken"
  /\ call.out.ok
  /\ call.answer.RefreshToken # Empty
  /\ call.out.refreshToken = call.answer.RefreshToken
  /\ call.out.refreshToken # call.refreshToken

\* C18 as stated: every failure is 401 "Invalid or expired refresh token".
C18_EveryFailureIs401 ==
  (call.fn = "refreshAccessToken" /\ ~call.out.ok) =>
    call.out = AuthFail(401, "Invalid or expired refresh token")

\* C19: under whatever letter case the Authorization header's name arrives,
\* getHeader and withAuth's own lookup resolve it to the header sent, and Basic
\* credentials sent without cookies are submitted to the identity provider.
C19_HeaderNameCaseIgnored ==
  (Protected /\ req.authzKey # "") =>
    /\ GetAuthzHeader(req) = req.authz
    /\ DirectAuthzHeader(req) = req.authz
    /\ (/\ pc = "done"
        /\ CookieEntries = <<>>
        /\ BasicCallsIssuer(req.authz)) => exchange.via = "basic"

\* The request with its cookies moved to the other representation.
OtherRepresentation(r) ==
  [r EXCEPT !.cookies = r.cookieHeader, !.cookieHeader = r.cookies]

\* C20: the access token and the refresh token withAuth extracts are the same
\* whether the cookies come in event.cookies or in the Cookie header, and the
\* cookies written after a Basic exchange are read back as the tokens issued.
C20_CookieRepresentationsAgree ==
  op = "withAuth" =>
    /\ (req.cookies = <<>> \/ req.cookieHeader = <<>>) =>
         BearerCandidate(OtherRepresentation(req)) = BearerCandidate(req)
    /\ replayOf.via = "basic" =>
         /\ BearerCandidate(req) = replayOf.out.AccessToken
         /\ RefreshArgs \subseteq {replayOf.out.RefreshToken}

\* The names of the CORS headers.
CorsHeaderNames ==
  {"Access-Control-Allow-Origin", "Vary", "Access-Control-Allow-Credentials",
   "Access-Control-Allow-Headers", "Access-Control-Allow-Methods"}

\* The origins process.env.ALLOWED_ORIGINS names, written out for each setting.
ConfiguredOrigins(setting) ==
  CASE setting = <<>> -> {}
    [] setting = << <<"a">> >> -> {<<"a">>}
    [] setting = << <<"a">>, <<" ", "b">> >> -> {<<"a">>, <<"b">>}
    [] setting = << <<" ", "a", " ">>, <<>> >> -> {<<"a">>}
    [] setting = << <<" ">>, <<>> >> -> {}

\* C21: the response headers carry the CORS headers, Access-Control-Allow-Origin
\* being the request's origin, exactly when the request has an Origin header,
\* under whatever letter case of its name, and no allow-list is configured or
\* the origin is in it; the Content-Type asked for is there in either case.
C21_CorsIffOriginAllowed ==
  call.fn = "responseHeaders" =>
    LET allowed ==
          /\ call.headers.originKey # ""
          /\ \/ ConfiguredOrigins(call.setting) = {}
             \/ call.headers.origin \in ConfiguredOrigins(call.setting)
    IN  /\ allowed => /\ CorsHeaderNames \subseteq DOMAIN call.out
                      /\ call.out["Access-Control-Allow-Origin"] = call.headers.origin
        /\ ~allowed => CorsHeaderNames \cap DOMAIN call.out = {}
        /\ ("Content-Type" \in DOMAIN call.out) = call.includeContentType

\* withAuth returned what an authenticated request's handler returned.
HandlerReturned ==
  /\ Protected
  /\ pc = "done"
  /\ handlerOut # NotInvoked
  /\ handlerOut.kind = "returns"

\* The step that authenticated the request: "none" for a verified bearer token.
AuthenticatedVia == IF bearerResult.ok THEN "none" ELSE exchange.via

\* C22: on each authenticated path (verified bearer token, refresh, Basic) the
\* response's headers are the computed headers and the handler's headers
\* together, and a header both set has the handler's value.
C22_HandlerHeadersWin ==
  HandlerReturned =>
    /\ AuthenticatedVia \in {"none", "refresh", "basic"}
    /\ DOMAIN resp.headers = DOMAIN JsonResponseHeaders(req) \cup DOMAIN handlerOut.headers
    /\ \A k \in DOMAIN handlerOut.headers : resp.headers[k] = handlerOut.headers[k]
    /\ \A k \in DOMAIN JsonResponseHeaders(req) \ DOMAIN handlerOut.headers :
         resp.headers[k] = JsonResponseHeaders(req)[k]

\* After a refresh the handler set a Content-Type other than the computed one.
C22_Witness ==
  /\ HandlerReturned
  /\ AuthenticatedVia = "refresh"
  /\ "Content-Type" \in DOMAIN handlerOut.headers
  /\ handlerOut.headers["Content-Type"] # JsonResponseHeaders(req)["Content-Type"]
  /\ resp.headers["Content-Type"] = handlerOut.headers["Content-Type"]

\* C23: after a refresh the status code and the body returned are the
\* handler's, the same a request with a verified bearer token gets from the same
\* handler outcome; the refresh shows in the cookies only.
C23_RefreshLeavesHandlerResult ==
  (Protected /\ pc = "done" /\ handlerOut # NotInvoked /\ AuthenticatedVia = "refresh") =>
    LET direct == AfterHandler(req, "none", bearerResult, handlerOut)
    IN  /\ resp.statusCode = direct.statusCode
        /\ resp.body = direct.body
        /\ resp.headers = direct.headers
        /\ handlerOut.kind = "returns" =>
             /\ resp.statusCode = handlerOut.statusCode
             /\ resp.body = PayloadBody(handlerOut.body)
             /\ resp.cookies # <<>>

\* After a refresh the handler answered 500 and that is what was returned, with
\* the new cookies.
C23_Witness ==
  /\ HandlerReturned
  /\ AuthenticatedVia = "refresh"
  /\ handlerOut.statusCode = 500
  /\ resp.statusCode = 500
  /\ resp.body = PayloadBody(handlerOut.body)
  /\ Len(resp.cookies) = 2

\* The body is a ProblemDetails object.
IsProblemBody(b) == DOMAIN b = {"type", "status", "title", "detail"}

\* C24: a response with a status of 400 or more has a ProblemDetails body and
\* Content-Type application/problem+json; any other response has Content-Type
\* application/json.
C24_ErrorsAreProblemDetails ==
  (pc = "done" /\ op \in {"withAuth", "token", "login", "logout"}) =>
    /\ "Content-Type" \in DOMAIN resp.headers
    /\ resp.statusCode >= 400 =>
         /\ IsProblemBody(resp.body)
         /\ resp.headers["Content-Type"] = "application/problem+json"
    /\ resp.statusCode < 400 => resp.headers["Content-Type"] = "application/json"

\* The Set-Cookie instructions of the response.
ResponseCookies == {resp.cookies[i] : i \in 1..Len(resp.cookies)}

C27_CookiesOnlyAfterExchange ==
  (pc = "done" /\ op \in {"withAuth", "login", "token"}) =>
    /\ resp.cookies # <<>> =>
         /\ authResult.ok
         /\ resp.statusCode \notin {400, 401, 502}
         /\ exchange.out.kind = "response"
         /\ exchange.out.AccessToken # Empty
         /\ exchange.out.AccessToken = authResult.bearerToken
    /\ ~authResult.ok => resp.cookies = <<>> /\ resp.statusCode >= 400

\* Basic credentials the identity provider rejected: 401 without cookies.
C27_Witness ==
  /\ op = "withAuth"
  /\ pc = "done"
  /\ exchange.via = "basic"
  /\ exchange.out.kind = "throw"
  /\ resp.statusCode = 401
  /\ resp.cookies = <<>>

C29_TokenHandlerBodyFirstNoCookies ==
  op = "token" =>
    /\ resp.cookies = <<>>
    /\ req.body.kind = "absent" =>
         /\ pc \in {"start", "done"}
         /\ calls = <<>>
         /\ exchange = NoExchange
         /\ bodyError = NoError
         /\ authResult = NoResult
         /\ pc = "done" =>
              /\ resp.statusCode = 400
              /\ IsProblemBody(resp.body)
              /\ resp.body.detail = "Missing request body"

\* Valid Basic credentials without a body: 400 and no call.
C29_Witness ==
  /\ op = "token"
  /\ pc = "done"
  /\ req.body.kind = "absent"
  /\ BasicHasCredentials(GetHeaderLowerCase(req))
  /\ resp.statusCode = 400
  /\ calls = <<>>

\* A Basic header whose decoded payload has no colon.
ColonlessBasic(h) == h.scheme = "Basic" /\ ~HasColon(Base64Decode(h.b64))

\* C30: a Basic Authorization header whose decoded payload has no colon makes
\* no call to the identity provider; withAuth, when it comes to the Basic step
\* with it, answers 400 "Invalid Basic format" and does not invoke the handler;
\* the token and login handlers, given nothing else to authenticate with, answer
\* 400 as well.
C30_ColonlessBasicRejected ==
  /\ (Protected /\ ColonlessBasic(DirectAuthzHeader(req))) =>
       /\ "password" \notin Ops(calls)
       /\ exchange.via # "basic"
       /\ (pc = "done" /\ requireAuth = "yes") =>
            /\ resp.statusCode = 400
            /\ resp.body = ErrorBody("Invalid Basic format")
            /\ resp.cookies = <<>>
            /\ handlerOut = NotInvoked
  /\ (op \in {"token", "login"} /\ ColonlessBasic(GetHeaderLowerCase(req))) =>
       /\ exchange.via # "basicHeader"
       /\ (pc = "done" /\ Len(Trim(clientId)) > 0 /\ calls = <<>>) =>
            resp.statusCode = 400 /\ resp.cookies = <<>>

\* withAuth denied a request whose only credential was such a header.
C30_Witness ==
  /\ Protected
  /\ ColonlessBasic(DirectAuthzHeader(req))
  /\ CookieEntries = <<>>
  /\ pc = "done"
  /\ requireAuth = "yes"
  /\ resp.statusCode = 400
  /\ calls = <<>>


\* An error reached the catch block of withAuth: the Cookie header did not
\* decode, the handler threw, or an optional authentication failed.
FaultCaught ==
  /\ Protected
  /\ pc = "done"
  /\ \/ ~ParseCookies(GetCookieHeader(req)).ok
     \/ handlerOut.kind = "throws"
     \/ (requireAuth = "no" /\ handlerOut = NotInvoked)

\* C31: an error thrown while withAuth processes a request (by its own code or
\* by the protected handler) ends in the catch block: withAuth returns a
\* response, 500 with the fixed message 'Internal server error', no cookies and
\* nothing of the error caught; and that response is given for such an error
\* only.
C31_FaultsCollapseTo500 ==
  /\ (op = "withAuth" /\ pc = "done") => resp # NoResponse
  /\ FaultCaught =>
       /\ resp = InternalErrorResponse(req)
       /\ resp.statusCode = 500
       /\ resp.cookies = <<>>
       /\ resp.body = ErrorBody("Internal server error")
       /\ handlerOut.kind = "throws" => resp.body.error # handlerOut.body
  /\ (Protected /\ pc = "done" /\ resp.body = ErrorBody(InternalErrorMessage))
       => FaultCaught

\* The handler threw after a refresh had given new tokens.
C31_Witness ==
  /\ FaultCaught
  /\ handlerOut.kind = "throws"
  /\ handlerOut.body # ""
  /\ Issued("refresh")
  /\ resp.statusCode = 500


\* The token an invocation hands to the handler as the caller's.
PairIdentity(s) ==
  IF s.bearerResult.ok THEN BearerCandidate(s.req)
  ELSE IF s.basicOut # NoOutcome THEN s.basicOut.AccessToken
  ELSE s.refreshOut.AccessToken

\* C32: of two invocations of withAuth that overlap, in whatever order their
\* steps are run, each returns the response (status, headers, cookies, body) it
\* would return run alone with the same answers of the key provider, the
\* identity provider and the handler, and hands the handler the token that its
\* own request was authenticated with.
C32_OverlappingRequestsIndependent ==
  \A i \in DOMAIN inflight :
    LET s == inflight[i]
    IN  /\ s.pc = "done" =>
             s.resp = WithAuthAlone(s.req, clientId, s.kind, s.refreshOut, s.basicOut,
                                    s.handlerOut, s.requireAuth # "no")
        /\ \A n \in 1..Len(s.calls) :
             s.calls[n].op = "handler" => s.calls[n].arg = PairIdentity(s)

\* Both invocations ran while the other was under way; the first was
\* authenticated by a refresh and got cookies, the second was denied.
C32_Witness ==
  /\ inflight # <<>>
  /\ \A i \in Slots : inflight[i].pc = "done" /\ inflight[i].overlapped
  /\ inflight[1].refreshOut.AccessToken # Empty
  /\ inflight[1].handlerOut.kind = "returns"
  /\ inflight[1].resp.cookies # <<>>
  /\ inflight[2].resp.statusCode = 401
  /\ inflight[2].handlerOut = NotInvoked
  /\ inflight[2].calls # <<>>


\* How often the protected handler was invoked for the request in progress.
HandlerCalls == Cardinality({n \in 1..Len(calls) : calls[n].op = "handler"})

\* The request in progress is authenticated: its bearer token was verified, or
\* the refresh or the Basic exchange gave an access token.
Authenticated == bearerResult.ok \/ Issued("refresh") \/ Issued("basic")

\* C33: withAuth invokes the protected handler at most once for a request, and
\* only for an authenticated one (verified bearer token, refresh or Basic
\* exchange that gave an access token), handing it that authentication; a
\* request that is denied, one that meets a missing client id and one whose
\* authentication fails with requireAuth false never reach the handler; and an
\* authenticated request does reach it before withAuth returns.
C33_HandlerOnlyWhenAuthenticated ==
  op = "withAuth" =>
    /\ HandlerCalls <= 1
    /\ (HandlerCalls = 1) = (handlerOut # NotInvoked)
    /\ (pc = "handler" \/ HandlerCalls = 1) =>
         /\ Authenticated
         /\ authResult.ok
         /\ clientId # <<>>
         /\ requireAuth = "unread"
    /\ (pc = "done" /\ Authenticated) => HandlerCalls = 1
    /\ (pc = "done" /\ (~Authenticated \/ clientId = <<>> \/ requireAuth = "no"))
         => HandlerCalls = 0 /\ handlerOut = NotInvoked

\* A request was denied with requireAuth false after the refresh and the Basic
\* exchange had both been tried, and the handler was not invoked.
C33_Witness ==
  /\ Protected
  /\ pc = "done"
  /\ requireAuth = "no"
  /\ "refresh" \in Ops(calls)
  /\ "password" \in Ops(calls)
  /\ HandlerCalls = 0
  /\ resp.statusCode = 500


\* withAuth has decided to call refreshAccessToken, or has called it.
RefreshAttempted == pc = "refresh" \/ "refresh" \in Ops(calls)

\* verifyBearerFromEvent has returned a failure (a token that does not verify,
\* or no token found).
BearerFailed == bearerResult # NoResult /\ ~bearerResult.ok

\* C34: withAuth attempts a refresh exactly when verifyBearerFromEvent failed
\* (or found no token) and the request carries a refresh_token cookie with a
\* value, whether the failing token came from a cookie or from the Authorization
\* header; it calls refreshAccessToken at most once, and never for a request
\* without such a cookie.
C34_RefreshIffFailedBearerAndCookie ==
  Protected =>
    /\ RefreshAttempted = (BearerFailed /\ CookieSent("refresh_token"))
    /\ ~CookieSent("refresh_token") => "refresh" \notin Ops(calls)
    /\ Cardinality({n \in 1..Len(calls) : calls[n].op = "refresh"}) <= 1

\* A token of the Authorization header failed verification, there is no
\* access_token cookie, and the refresh_token cookie was exchanged.
C34_Witness ==
  /\ Protected
  /\ "refresh" \in Ops(calls)
  /\ ~CookieNamed("access_token")
  /\ req.authz.scheme = "Bearer"
  /\ bearerResult.message \in {"Invalid JWT", "Invalid token"}
  /\ CookieSent("refresh_token")


\* How often the request in progress called the collaborator.
CallsOf(name) == Cardinality({n \in 1..Len(calls) : calls[n].op = name})

\* C35: for one request withAuth calls the identity provider at most once to
\* refresh and at most once to authenticate a password; after a verified bearer
\* token it makes neither call; and it is at the Basic step, where alone the
\* password call is made, only if no refresh gave an access token, so that no
\* password call follows a successful refresh.
C35_IssuerCallsBounded ==
  op = "withAuth" =>
    /\ CallsOf("refresh") <= 1
    /\ CallsOf("password") <= 1
    /\ bearerResult.ok => (CallsOf("refresh") = 0 /\ CallsOf("password") = 0)
    /\ Issued("refresh") => (pc \in {"handler", "done"} /\ CallsOf("password") = 0)
    /\ (pc = "basic" /\ CallsOf("refresh") = 1) =>
         (exchange.via = "refresh" /\ ~Issued("refresh"))
    /\ CallsOf("password") = 1 =>
         (exchange.via = "basic" /\ calls[Len(calls)].op \in {"password", "handler"})

\* A refresh gave an access token and the request, which also carried Basic
\* credentials, returned without a password call.
C35_Witness ==
  /\ Protected
  /\ pc = "done"
  /\ Issued("refresh")
  /\ BasicCallsIssuer(DirectAuthzHeader(req))
  /\ CallsOf("refresh") = 1
  /\ CallsOf("password") = 0


\* authenticateRequest is past its client id check.
AuthenticateRequestRuns ==
  /\ op \in {"token", "login"}
  /\ pc # "start"
  /\ Len(Trim(clientId)) > 0
  /\ ~RejectsMissingBody(op, req.body)

\* The collaborators called for the request in progress, in order.
OpsSeq == [n \in 1..Len(calls) |-> calls[n].op]

\* The calls the body of the request leads to when none of them succeeds.
RefreshPart == IF BodyRefreshToken(req.body) # Empty THEN <<"refresh">> ELSE <<>>

PasswordPart == IF BodyHasPassword(req.body) THEN <<"password">> ELSE <<>>

\* C36: authenticateRequest tries the refresh token of the body first, then the
\* body's username and password (also after a failed refresh), then the Basic
\* header, which it reads only after every source of the body was tried and
\* failed; the first call that succeeds ends the request with its tokens, and
\* no later source is tried.
C36_CredentialSourcesInPriority ==
  AuthenticateRequestRuns =>
    /\ pc = "bodyRefresh" => (calls = <<>> /\ RefreshPart # <<>>)
    /\ pc = "bodyPassword" =>
         /\ PasswordPart # <<>>
         /\ OpsSeq = RefreshPart
         /\ calls # <<>> => (exchange.via = "bodyRefresh" /\ exchange.out.kind # "response")
    /\ pc = "basicHeader" =>
         /\ OpsSeq = RefreshPart \o PasswordPart
         /\ calls # <<>> => exchange.out.kind # "response"
    /\ pc = "done" =>
         /\ exchange.via = "none" => (calls = <<>> /\ RefreshPart \o PasswordPart = <<>>)
         /\ exchange.via = "bodyRefresh" =>
              /\ OpsSeq = <<"refresh">>
              /\ exchange.out.kind # "response" => PasswordPart = <<>>
         /\ exchange.via = "bodyPassword" => OpsSeq = RefreshPart \o <<"password">>
         /\ exchange.via = "basicHeader" =>
              OpsSeq = RefreshPart \o PasswordPart \o <<"password">>
         /\ exchange.out.kind = "response" =>
              /\ resp.statusCode = 200
              /\ authResult.ok
              /\ authResult.bearerToken = exchange.out.AccessToken
         /\ resp.statusCode = 200 => exchange.out.kind = "response"

\* The body's refresh token was rejected, its username and password were
\* accepted, and the Basic credentials the request also carried were not tried.
C36_Witness ==
  /\ AuthenticateRequestRuns
  /\ pc = "done"
  /\ OpsSeq = <<"refresh", "password">>
  /\ exchange.via = "bodyPassword"
  /\ BasicHasCredentials(GetHeaderLowerCase(req))
  /\ resp.statusCode = 200


\* authenticateRequest threw at its step 3 for a request without Basic header.
NoMethodWorked ==
  /\ AuthenticateRequestRuns
  /\ pc = "done"
  /\ req.authz.scheme # "Basic"

\* What the body attempt threw, as the calls of the request show it.
BodyAttemptError ==
  IF req.body.kind = "invalid" THEN SyntaxError
  ELSE IF exchange.via = "bodyRefresh" THEN CognitoThrown("refresh", exchange.out)
  ELSE IF exchange.via = "bodyPassword" THEN CognitoThrown("authenticate", exchange.out)
  ELSE NoError

\* C37: when no method worked and there is no Basic header, authenticateRequest
\* throws the error of the body attempt: 400 'Invalid JSON in request body' for
\* a body that does not parse, the ProblemDetails the failed call threw, status
\* and detail unchanged, otherwise; it throws the 400 'No authentication method
\* provided' exactly when the body attempt left no error or one that is not a
\* ProblemDetails.
C37_BodyErrorSurfaces ==
  (NoMethodWorked /\ resp.statusCode # 200) =>
    /\ bodyError = BodyAttemptError
    /\ bodyError.kind = "syntax" =>
         /\ resp.statusCode = 400
         /\ resp.body.detail = "Invalid JSON in request body"
    /\ bodyError.kind = "problem" =>
         /\ resp.statusCode = bodyError.status
         /\ resp.body = ProblemBody(bodyError)
         /\ resp.body.detail = bodyError.detail
    /\ (resp.body.detail = NoMethodDetail) = (bodyError.kind \in {"none", "error"})
    /\ resp.body.detail = NoMethodDetail => resp.statusCode = 400

\* The body's refresh token was rejected with a ProblemDetails, there was
\* nothing else to try, and the answer is that ProblemDetails.
C37_Witness ==
  /\ NoMethodWorked
  /\ exchange.via = "bodyRefresh"
  /\ bodyError.kind = "problem"
  /\ resp.statusCode = 401
  /\ resp.body.detail = "Invalid or expired refresh token"


\* The invocations that asked the key provider for the key set of the tokens'
\* issuer (the tokens of the model that name an issuer all name the same one).
KeySetFetches ==
  {i \in DOMAIN inflight :
     \E n \in 1..Len(inflight[i].calls) : inflight[i].calls[n].op = "jwks"}

\* C38: the key set of an issuer is fetched once in the life of the process:
\* of two requests whose tokens name the same issuer, in sequence or
\* overlapping, at most one asks the key provider.
C38_KeySetFetchedOncePerIssuer == Cardinality(KeySetFetches) <= 1


\* The invocations whose handler returned a response.
HandlerAnswered ==
  {i \in DOMAIN inflight :
     inflight[i].pc = "done" /\ inflight[i].handlerOut.kind = "returns"}

\* The names of the cookies of a list.
CookieNameSet(cookies) == {cookies[n].name : n \in 1..Len(cookies)}

\* C39: after a refresh or a Basic exchange the cookies of the response are the
\* access_token and refresh_token cookies withAuth computed from the tokens
\* issued and nothing else, the cookies of the handler's own response being
\* dropped; after a verified bearer token they are the handler's cookies as the
\* handler returned them, with no access_token or refresh_token cookie added.
C39_ExchangeCookiesReplaceHandlerCookies ==
  \A i \in HandlerAnswered :
    LET s == inflight[i]
    IN  IF s.bearerResult.ok
        THEN /\ s.resp.cookies = s.handlerOut.cookies
             /\ CookieNameSet(s.resp.cookies) \cap {"access_token", "refresh_token"} = {}
        ELSE /\ s.resp.cookies = IssuedCookies(s.authResult)
             /\ CookieNameSet(s.resp.cookies) \subseteq {"access_token", "refresh_token"}
             /\ "access_token" \in CookieNameSet(s.resp.cookies)
             /\ \A n \in 1..Len(s.handlerOut.cookies) :
                  s.handlerOut.cookies[n].name \notin CookieNameSet(s.resp.cookies)

\* The handler returned a cookie of its own to both requests: the one
\* authenticated by a Basic exchange lost it, the one with a verified bearer
\* token kept it.
C39_Witness ==
  /\ HandlerAnswered = Slots
  /\ \A i \in Slots : inflight[i].handlerOut.cookies = <<HandlerCookie>>
  /\ ~inflight[1].bearerResult.ok
  /\ inflight[1].basicOut.AccessToken # Empty
  /\ HandlerCookie.name \notin CookieNameSet(inflight[1].resp.cookies)
  /\ inflight[2].bearerResult.ok
  /\ inflight[2].resp.cookies = <<HandlerCookie>>

====
